---------------------------- MODULE Spec2Model ----------------------------
(***************************************************************************)
(* A model of the cursors of cpp-lazy:                                     *)
(*   - CartesianProductIterator (detail/iterators/CartesianProductIterator)*)
(*   - JoinWhereIterator, in its two implementations                       *)
(*       "loop"    : detail/JoinWhereIterator.hpp (while loop, _iterBFound)*)
(*       "find_if" : detail/iterators/JoinWhereIterator.hpp (std::find_if) *)
(*       "par"     : the same file, findNext() under a parallel policy     *)
(*   - MapIterator and ExceptIterator (detail/MapIterator.hpp,             *)
(*     detail/ExceptIterator.hpp), with the join cursor of                 *)
(*     detail/JoinWhereIterator.hpp, as pairs of cursors: copies,          *)
(*     post-increment and comparison                                       *)
(*   - the views Generate (Generate.hpp) and Enumerate (Enumerate.hpp):    *)
(*     their constructors and what these pass to the cursors they          *)
(*     construct, and the cursor EnumerateIterator                         *)
(*                                                                         *)
(* An underlying iterator is the index it designates in its sequence: a    *)
(* sequence of n elements has the positions 0 .. n-1 and the end position  *)
(* n (cartesian product), or 1 .. n and n+1 (join, where the sequences are *)
(* TLA+ sequences).  Moving an underlying iterator outside [begin, end],   *)
(* reading through an end iterator and dividing by zero are undefined      *)
(* behaviour: the cursor's ub field records which, and the action that     *)
(* meets it draws the resulting position from UBOutcomes.                  *)
(***************************************************************************)
EXTENDS Integers, Sequences, FiniteSets, TLC

VARIABLES
    \* ---- CartesianProductIterator ----
    cpBegin,      \* _begin    : tuple of the N begin positions
    cpIterator,   \* _iterator : tuple of the N current positions
    cpEnd,        \* _end      : tuple of the N end positions
    cpUb,         \* "none", or the undefined behaviour the last operation met
    cpOp,         \* the last operation that moved the cursor ("idle": no cursor)
    cpPrev,       \* _iterator before the last operation
    cpArg,        \* the offset of the last plusIs (0 otherwise)
    cpK,          \* number of increments since construction at begin, while
                  \* nothing but increment was applied; -1 afterwards
    cpOther,      \* the operand of the difference just taken: "begin", "end",
                  \* "prev"; "none" when the last operation was no difference
    cpDist,       \* result of that difference: this - other
    cpDistRev,    \* result of the converse difference: other - this
    cpVal,        \* the tuple the dereference just done returned; <<>> when
                  \* the last operation was no dereference
    cpReads,      \* how many times in a row the cursor has been dereferenced
    \* ---- JoinWhereIterator ----
    jImpl,        \* which implementation: "loop" or "find_if" ("idle": no cursor)
    jA,           \* sequence A, as the sequence of its elements' keys
    jB,           \* sequence B, as the sequence of its elements' keys
    jIterA,       \* _iterA
    jIterB,       \* _iterB
    jFound,       \* _iterBFound (implementation "loop" only; 0 otherwise)
    jUb,          \* "none", or the undefined behaviour the last operation met
    jOp,          \* the last operation applied to the cursor
    jTouched,     \* whether the constructor dereferenced an element of A or B
    jRead,        \* whether the current position has been dereferenced
    jVal,         \* the pair the last dereference returned (<<>>: none)
    jOut,         \* the pairs <<A position, B position>> emitted so far
    jReads,       \* how many times in a row the cursor has been dereferenced
    \* ---- findNext() under a parallel execution policy ----
    pW,           \* the invocations of the predicate of std::find_if, one for
                  \* each element of A: [pc, first, r, ret]
    pCall,        \* the operation whose findNext() is running or ran last
    pMissWrites,  \* writes of _iterB, during this findNext(), by invocations
                  \* that found no match
    pCommits,     \* invocations that found a match during this findNext()
    \* ---- two cursors over one view: MapIterator, ExceptIterator, join ----
    xKind,        \* "map", "except" or "join" ("idle": no such cursors)
    xSrc,         \* the source sequence (for a join: the keys of A)
    xAux,         \* the sequence to except (for a join: the keys of B)
    xIt,          \* the first cursor
    xCp,          \* the second cursor: a copy of the first or a cursor
                  \* constructed on its own; NoCursor before there is one
    xRet,         \* the cursor the last post-increment returned
    xOp,          \* the last operation
    xPrevIt,      \* the first cursor before the last operation
    xPrevCp,      \* the second cursor before the last operation
    \* ---- the Generate view a caller holds ----
    gArgs,        \* the amount passed to generate(): <<n>>, or <<>> when the
                  \* argument is omitted
    gView,        \* the view: [begin, end], what its constructor passed to
                  \* the constructors of its two cursors
    gCalls,       \* how many times generate() has been called
    gOp,          \* the last operation ("idle": no view)
    \* ---- an Enumerate view and a cursor of it ----
    eSrc,         \* the sequence enumerated
    eStart,       \* the start index passed to enumerate()
    eView,        \* the view: [begin, end], two EnumerateIterators
    eIt,          \* a cursor of the view
    eVal,         \* the pair <<index, element>> the last dereference returned
    eOp           \* the last operation on the cursor ("idle": no view)

cpVars == <<cpBegin, cpIterator, cpEnd, cpUb, cpOp, cpPrev, cpArg, cpK,
            cpOther, cpDist, cpDistRev, cpVal, cpReads>>
jVars == <<jImpl, jA, jB, jIterA, jIterB, jFound, jUb, jOp, jTouched, jRead,
           jVal, jOut, jReads>>
pVars == <<pW, pCall, pMissWrites, pCommits>>
xVars == <<xKind, xSrc, xAux, xIt, xCp, xRet, xOp, xPrevIt, xPrevCp>>
gVars == <<gArgs, gView, gCalls, gOp>>
eVars == <<eSrc, eStart, eView, eIt, eVal, eOp>>
vVars == <<gVars, eVars>>
vars == <<cpVars, jVars, pVars, xVars, vVars>>

\* there is no Generate view
GenIdle ==
    /\ gArgs = <<>>
    /\ gView = [none |-> TRUE]
    /\ gCalls = 0
    /\ gOp = "idle"

\* there is no Enumerate view
EnumIdle ==
    /\ eSrc = <<>>
    /\ eStart = 0
    /\ eView = [none |-> TRUE]
    /\ eIt = [none |-> TRUE]
    /\ eVal = <<>>
    /\ eOp = "idle"

\* there is no view of a single-sequence adaptor
ViewsIdle == GenIdle /\ EnumIdle

\* there is no cartesian-product cursor, no join cursor and no pair of cursors
CursorsIdle ==
    /\ cpBegin = <<>>
    /\ cpIterator = <<>>
    /\ cpEnd = <<>>
    /\ cpUb = "none"
    /\ cpOp = "idle"
    /\ cpPrev = <<>>
    /\ cpArg = 0
    /\ cpK = -1
    /\ cpOther = "none"
    /\ cpDist = 0
    /\ cpDistRev = 0
    /\ cpVal = <<>>
    /\ cpReads = 0
    /\ jImpl = "idle"
    /\ jA = <<>>
    /\ jB = <<>>
    /\ jIterA = 1
    /\ jIterB = 1
    /\ jFound = 0
    /\ jUb = "none"
    /\ jOp = "idle"
    /\ jTouched = FALSE
    /\ jRead = FALSE
    /\ jVal = <<>>
    /\ jOut = <<>>
    /\ jReads = 0
    /\ pW = <<>>
    /\ pCall = "idle"
    /\ pMissWrites = 0
    /\ pCommits = 0
    /\ xKind = "idle"
    /\ xSrc = <<>>
    /\ xAux = <<>>
    /\ xIt = [none |-> TRUE]
    /\ xCp = [none |-> TRUE]
    /\ xRet = [none |-> TRUE]
    /\ xOp = "idle"
    /\ xPrevIt = [none |-> TRUE]
    /\ xPrevCp = [none |-> TRUE]

----------------------------------------------------------------------------
(* Bounds of the model *)

\* the largest number of dimensions (sequences) of a cartesian product
MaxDims == 3
\* the largest size of one sequence of a cartesian product
MaxSize == 2

\* the largest offset, in absolute value, of a jump from a position other
\* than the begin (from the begin every offset up to the end is taken)
MaxJump == 2
\* the keys of the elements of A and B are 1 .. MaxKey
MaxKey == 2
\* the largest number of elements of A
MaxLenA == 3
\* the largest number of elements of B
MaxLenB == 3
\* the width of std::size_t, in bits
SizeBits == 4
\* the largest number of calls of generate()
MaxCalls == 8
\* the largest number of elements of an enumerated sequence, its elements
\* being 1 .. MaxEnumKey, and the largest start index
MaxEnumLen == 3
MaxEnumKey == 2
MaxEnumStart == 2
\* the largest number of dereferences in a row of one cursor
MaxReads == 2

\* static_assert(sizeof...(Iterators) > 1)
MinDims == 2

----------------------------------------------------------------------------
(* Arithmetic helpers *)

Abs(x) == IF x < 0 THEN -x ELSE x

\* std::lldiv: the quotient is truncated towards zero, rem = x - quot * y
LLDivQuot(x, y) ==
    IF (x >= 0) = (y > 0) THEN Abs(x) \div Abs(y) ELSE -(Abs(x) \div Abs(y))

LLDivRem(x, y) == x - LLDivQuot(x, y) * y

RECURSIVE ProdUpTo(_, _)
\* the product f[1] * ... * f[n]
ProdUpTo(f, n) == IF n = 0 THEN 1 ELSE f[n] * ProdUpTo(f, n - 1)


----------------------------------------------------------------------------
(* CartesianProductIterator                                                *)
(*                                                                         *)
(* A cursor is the record [begin, it, end, ub]: the members _begin,        *)
(* _iterator and _end, each a tuple with one position per dimension, and   *)
(* the undefined behaviour met so far.  std::get<J> of a tuple is its      *)
(* component J + 1 here.                                                   *)

Cursor(b, it, e) == [begin |-> b, it |-> it, end |-> e, ub |-> "none"]

NDims(c) == Len(c.it)

\* it += delta on the iterator of dimension d; leaving [begin, end] is
\* undefined behaviour
Move(c, d, delta) ==
    LET p == c.it[d] + delta
    IN  [c EXCEPT !.it[d] = p,
                  !.ub = IF c.ub # "none" THEN c.ub
                         ELSE IF p < c.begin[d] \/ p > c.end[d] THEN "range"
                         ELSE "none"]

\* it = p on the iterator of dimension d
Assign(c, d, p) == [c EXCEPT !.it[d] = p]

RECURSIVE nextNoReset(_, _)
\* next<I>() with the reset of the carrying dimension to its begin left out
nextNoReset(c, I) ==
    IF I = 0 THEN c
    ELSE LET c1 == Move(c, I, 1)
         IN  IF c1.it[I] = c1.end[I]
             THEN IF I # 1 THEN nextNoReset(c1, I - 1) ELSE c1
             ELSE c1

RECURSIVE next(_, _)
\* next<I>(): increment dimension I - 1, carrying leftwards
next(c, I) ==
    IF I = 0 THEN c
    ELSE LET c1 == Move(c, I, 1)
         IN  IF c1.it[I] = c1.end[I]
             THEN IF I # 1 THEN next(Assign(c1, I, c1.begin[I]), I - 1)
                  ELSE c1
             ELSE c1

\* doPrev<J>(): --std::get<J>(_iterator)
doPrev(c, J) == Move(c, J + 1, -1)

\* doPrevAll<J>() that decrements dimension J only
doPrevAllOnlyLast(c, J) == doPrev(c, J)

RECURSIVE doPrevAll(_, _)
\* doPrevAll<J>(): decrement the dimensions J, J - 1, ..., 0
doPrevAll(c, J) ==
    LET c1 == doPrev(c, J)
    IN  IF J > 0 THEN doPrevAll(c1, J - 1) ELSE c1

RECURSIVE previousNoWrap(_, _)
\* previous<I>() that borrows without moving the dimension to its last element
previousNoWrap(c, I) ==
    IF I = 0 THEN c
    ELSE IF c.it = c.end THEN doPrevAll(c, I - 1)
    ELSE IF c.it[I] = c.begin[I]
         THEN IF I # 1 THEN previousNoWrap(c, I - 1) ELSE c
         ELSE doPrev(c, I - 1)

RECURSIVE previous(_, _)
\* previous<I>(): decrement dimension I - 1, borrowing leftwards
previous(c, I) ==
    IF I = 0 THEN c
    ELSE IF c.it = c.end THEN doPrevAll(c, I - 1)
    ELSE IF c.it[I] = c.begin[I]
         THEN IF I # 1
              THEN previous(doPrev(Assign(c, I, c.end[I]), I - 1), I - 1)
              ELSE c
         ELSE doPrev(c, I - 1)

RECURSIVE operatorPlusImpl(_, _, _)
\* operatorPlusImpl<I>(offset): distribute offset over the dimensions I .. 0
operatorPlusImpl(c, I, offset) ==
    IF I = 0 THEN Move(c, 1, offset)
    ELSE LET d == I + 1
             wrap == offset < 0 /\ c.it[d] = c.begin[d]
             c1 == IF wrap THEN Assign(c, d, c.end[d]) ELSE c
             dist == IF offset < 0
                     THEN IF wrap THEN c1.it[d] - c1.begin[d]
                          ELSE c1.it[d] - c1.begin[d] + 1
                     ELSE c1.end[d] - c1.it[d]
         IN  IF dist = 0
             THEN [c1 EXCEPT !.ub = IF c1.ub # "none" THEN c1.ub ELSE "divzero"]
             ELSE operatorPlusImpl(Move(c1, d, LLDivRem(offset, dist)), I - 1,
                                   LLDivQuot(offset, dist))

RECURSIVE SumUpTo(_, _)
\* the sum f[1] + ... + f[n]
SumUpTo(f, n) == IF n = 0 THEN 0 ELSE f[n] + SumUpTo(f, n - 1)

\* distanceImpl(c) accumulating with std::plus instead of std::multiplies
distanceImplSum(self, c) ==
    SumUpTo([d \in 1..NDims(self) |-> c.it[d] - self.it[d]], NDims(self))

\* distanceImpl(c), called on self: the product over the dimensions of
\* std::get<Is>(c._iterator) - std::get<Is>(_iterator)
distanceImpl(self, c) ==
    ProdUpTo([d \in 1..NDims(self) |-> c.it[d] - self.it[d]], NDims(self))

\* checkEnd() that leaves the cursor as next<I>() left it
checkEndKeep(c) == c

\* checkEnd() that tests the last dimension instead of dimension 0
checkEndLastDimension(c) ==
    IF c.it[NDims(c)] = c.end[NDims(c)] THEN [c EXCEPT !.it = c.end] ELSE c

\* checkEnd(): dimension 0 at its end moves every dimension to its end
checkEnd(c) ==
    IF c.it[1] = c.end[1] THEN [c EXCEPT !.it = c.end] ELSE c

\* the element at position p of the sequence of dimension d
ElemAt(d, p) == <<d, p>>

\* dereference() that reads through _begin instead of _iterator
cpDereferenceBegin(c) ==
    [val |-> [d \in 1..NDims(c) |-> ElemAt(d, c.begin[d])],
     ub  |-> IF \E d \in 1..NDims(c) : c.it[d] < c.begin[d] \/ c.it[d] >= c.end[d]
             THEN "range" ELSE "none"]

\* dereference(): the tuple of the dimensions' elements; reading through a
\* position outside [begin, end) is undefined behaviour
cpDereference(c) ==
    [val |-> [d \in 1..NDims(c) |-> ElemAt(d, c.it[d])],
     ub  |-> IF \E d \in 1..NDims(c) : c.it[d] < c.begin[d] \/ c.it[d] >= c.end[d]
             THEN "range" ELSE "none"]

\* increment()
cpIncrement(c) == checkEnd(next(c, NDims(c)))

\* decrement()
cpDecrement(c) == previous(c, NDims(c))

\* plusIs(n)
cpPlusIs(c, n) == checkEnd(operatorPlusImpl(c, NDims(c) - 1, n))

\* eq(other)
cpEq(c, other) == c.it = other.it

\* difference(other): this - other
cpDifference(c, other) == distanceImpl(other, c)

----------------------------------------------------------------------------
(* The cartesian-product cursor as a state machine *)

\* the cursor held in the state
CPCursor ==
    [begin |-> cpBegin, it |-> cpIterator, end |-> cpEnd, ub |-> cpUb]

\* the cursor a view hands out as its begin: iterator(begin, begin, end)
CPBeginCursor == Cursor(cpBegin, cpBegin, cpEnd)

\* the cursor a view hands out as its end: iterator(end, begin, end)
CPEndCursor == Cursor(cpBegin, cpEnd, cpEnd)

\* the positions an operation that met undefined behaviour may leave: the
\* ones its arithmetic gives, or the ones before it when it is cut short
UBOutcomes(r, before) == IF r.ub = "none" THEN {r.it} ELSE {r.it, before}

\* sizes[d]: the number of elements of the sequence of dimension d
CPSizes == [d \in 1..Len(cpEnd) |-> cpEnd[d] - cpBegin[d]]

\* the number of tuples of the product
CPProduct == ProdUpTo(CPSizes, Len(cpEnd))

RECURSIVE OrdUpTo(_, _, _)
\* the rank of the tuple it in lexicographic order, the last dimension the
\* fastest: Horner's rule over the dimensions 1 .. n
OrdUpTo(it, sizes, n) ==
    IF n = 0 THEN 0 ELSE OrdUpTo(it, sizes, n - 1) * sizes[n] + it[n]

\* the rank of a position; the end position has rank CPProduct
CPOrd(it) ==
    IF it = cpEnd THEN CPProduct
    ELSE OrdUpTo([d \in 1..Len(it) |-> it[d] - cpBegin[d]], CPSizes, Len(it))

\* a cursor constructed by a view over n sequences, as its begin or its end;
\* there is no join cursor
CPInit ==
    /\ \E n \in MinDims..MaxDims :
         \E sizes \in [1..n -> 0..MaxSize] :
            /\ cpBegin = [d \in 1..n |-> 0]
            /\ cpEnd = [d \in 1..n |-> sizes[d]]
    /\ cpIterator \in {cpBegin, cpEnd}
    /\ cpUb = "none"
    /\ cpOp = "construct"
    /\ cpPrev = cpIterator
    /\ cpArg = 0
    /\ cpK = IF cpIterator = cpBegin THEN 0 ELSE -1
    /\ cpOther = "none"
    /\ cpDist = 0
    /\ cpDistRev = 0
    /\ cpVal = <<>>
    /\ cpReads = 0
    /\ jImpl = "idle"
    /\ jA = <<>>
    /\ jB = <<>>
    /\ jIterA = 1
    /\ jIterB = 1
    /\ jFound = 0
    /\ jUb = "none"
    /\ jOp = "idle"
    /\ jTouched = FALSE
    /\ jRead = FALSE
    /\ jVal = <<>>
    /\ jOut = <<>>
    /\ jReads = 0
    /\ pW = <<>>
    /\ pCall = "idle"
    /\ pMissWrites = 0
    /\ pCommits = 0
    /\ xKind = "idle"
    /\ xSrc = <<>>
    /\ xAux = <<>>
    /\ xIt = [none |-> TRUE]
    /\ xCp = [none |-> TRUE]
    /\ xRet = [none |-> TRUE]
    /\ xOp = "idle"
    /\ xPrevIt = [none |-> TRUE]
    /\ xPrevCp = [none |-> TRUE]
    /\ ViewsIdle

\* what every operation that moves the cursor does to the recorded history
CPMoved(op, r, arg) ==
    /\ cpIterator' \in UBOutcomes(r, cpIterator)
    /\ cpUb' = r.ub
    /\ cpOp' = op
    /\ cpPrev' = cpIterator
    /\ cpArg' = arg
    /\ cpOther' = "none"
    /\ cpDist' = 0
    /\ cpDistRev' = 0
    /\ cpVal' = <<>>
    /\ cpReads' = 0
    /\ UNCHANGED <<cpBegin, cpEnd>>

\* ++it, on a cursor that is not the end
CPIncrement ==
    /\ cpOp # "idle"
    /\ cpUb = "none"
    /\ ~cpEq(CPCursor, CPEndCursor)
    /\ CPMoved("increment", cpIncrement(CPCursor), 0)
    /\ cpK' = IF cpK >= 0 THEN cpK + 1 ELSE -1
    /\ UNCHANGED <<jVars, pVars, xVars, vVars>>

\* --it, on a cursor that is not the begin
CPDecrement ==
    /\ cpOp # "idle"
    /\ cpUb = "none"
    /\ ~cpEq(CPCursor, CPBeginCursor)
    /\ CPMoved("decrement", cpDecrement(CPCursor), 0)
    /\ cpK' = -1
    /\ UNCHANGED <<jVars, pVars, xVars, vVars>>

\* the offsets the caller jumps by
CPOffsets ==
    IF cpIterator = cpBegin THEN 0..CPProduct ELSE (-MaxJump)..MaxJump

\* it += n, for an offset n that stays within [begin, end]
CPPlusIs ==
    /\ cpOp # "idle"
    /\ cpUb = "none"
    /\ \E n \in CPOffsets :
          /\ CPOrd(cpIterator) + n >= 0
          /\ CPOrd(cpIterator) + n <= CPProduct
          /\ CPMoved("plusIs", cpPlusIs(CPCursor, n), n)
    /\ cpK' = -1
    /\ UNCHANGED <<jVars, pVars, xVars, vVars>>

\* it - other and other - it, for other the begin, the end or the cursor as
\* it was before the last operation
CPDifference ==
    /\ cpOp # "idle"
    /\ cpUb = "none"
    /\ \E o \in {"begin", "end", "prev"} :
         LET other == Cursor(cpBegin,
                             CASE o = "begin" -> cpBegin
                               [] o = "end" -> cpEnd
                               [] OTHER -> cpPrev,
                             cpEnd)
         IN  /\ cpOther' = o
             /\ cpDist' = cpDifference(CPCursor, other)
             /\ cpDistRev' = cpDifference(other, CPCursor)
    /\ cpVal' = <<>>
    /\ cpReads' = 0
    /\ UNCHANGED <<cpBegin, cpIterator, cpEnd, cpUb, cpOp, cpPrev, cpArg, cpK>>
    /\ UNCHANGED <<jVars, pVars, xVars, vVars>>

\* *it, on a cursor that is not the end
CPDereference ==
    /\ cpOp # "idle"
    /\ cpUb = "none"
    /\ ~cpEq(CPCursor, CPEndCursor)
    /\ cpReads < MaxReads
    /\ cpReads' = cpReads + 1
    /\ cpVal' = cpDereference(CPCursor).val
    /\ cpUb' = cpDereference(CPCursor).ub
    /\ cpOther' = "none"
    /\ cpDist' = 0
    /\ cpDistRev' = 0
    /\ UNCHANGED <<cpBegin, cpIterator, cpEnd, cpOp, cpPrev, cpArg, cpK>>
    /\ UNCHANGED <<jVars, pVars, xVars, vVars>>

CPNext ==
    \/ CPIncrement
    \/ CPDecrement
    \/ CPPlusIs
    \/ CPDifference
    \/ CPDereference

----------------------------------------------------------------------------
(* JoinWhereIterator                                                       *)
(*                                                                         *)
(* A and B are the sequences of their elements' keys (the values the key   *)
(* selectors return); an element is identified by its position, 1 .. Len,  *)
(* and Len + 1 is the end position.  A cursor is the record                *)
(* [iterA, iterB, found, touched, ub].                                     *)

EndA(A) == Len(A) + 1

EndB(B) == Len(B) + 1

\* _beginB(iterB == endB ? endB : iterB), for iterB the first position of B
BeginB(B) == IF 1 = EndB(B) THEN EndB(B) ELSE 1

RECURSIVE lowerBoundLoop(_, _, _, _)
\* the loop of std::lower_bound: halve the range of len elements at first
lowerBoundLoop(B, first, len, val) ==
    IF len <= 0 THEN first
    ELSE LET half == len \div 2
             middle == first + half
         IN  IF B[middle] < val
             THEN lowerBoundLoop(B, middle + 1, len - half - 1, val)
             ELSE lowerBoundLoop(B, first, half, val)

\* std::lower_bound(first, last, val, [](b, val) { return selectorB(b) < val; })
lowerBound(B, first, last, val) == lowerBoundLoop(B, first, last - first, val)

\* the match test with the operands of < exchanged
IsMatchExchanged(B, iterB, toFind) == iterB # EndB(B) /\ ~(B[iterB] < toFind)

\* _iterB != _endB && !(toFind < _selectorB(*_iterB))
IsMatch(B, iterB, toFind) == iterB # EndB(B) /\ ~(toFind < B[iterB])

RECURSIVE findNextLoopNoReset(_, _, _)
\* findNext() of detail/JoinWhereIterator.hpp without _iterB = _beginB
findNextLoopNoReset(A, B, j) ==
    IF j.iterA = EndA(A) THEN j
    ELSE LET toFind == A[j.iterA]
             iterB == lowerBound(B, j.iterB, EndB(B), toFind)
         IN  IF IsMatch(B, iterB, toFind)
             THEN [j EXCEPT !.found = iterB, !.iterB = iterB + 1,
                            !.touched = TRUE]
             ELSE findNextLoopNoReset(A, B, [j EXCEPT !.iterA = j.iterA + 1,
                                                      !.iterB = iterB,
                                                      !.touched = TRUE])

RECURSIVE findNextLoop(_, _, _)
\* findNext() of detail/JoinWhereIterator.hpp
findNextLoop(A, B, j) ==
    IF j.iterA = EndA(A) THEN j
    ELSE LET toFind == A[j.iterA]
             iterB == lowerBound(B, j.iterB, EndB(B), toFind)
         IN  IF IsMatch(B, iterB, toFind)
             THEN [j EXCEPT !.found = iterB, !.iterB = iterB + 1,
                            !.touched = TRUE]
             ELSE findNextLoop(A, B, [j EXCEPT !.iterA = j.iterA + 1,
                                               !.iterB = BeginB(B),
                                               !.touched = TRUE])

RECURSIVE findNextFindIf(_, _, _)
\* findNext() of detail/iterators/JoinWhereIterator.hpp: std::find_if over
\* [_iterA, _endA) with the predicate that searches B
findNextFindIf(A, B, j) ==
    IF j.iterA = EndA(A) THEN j
    ELSE LET toFind == A[j.iterA]
             iterB == lowerBound(B, j.iterB, EndB(B), toFind)
         IN  IF IsMatch(B, iterB, toFind)
             THEN [j EXCEPT !.iterB = iterB, !.touched = TRUE]
             ELSE findNextFindIf(A, B, [j EXCEPT !.iterA = j.iterA + 1,
                                                 !.iterB = BeginB(B),
                                                 !.touched = TRUE])

\* JoinWhereIterator(iterA, endA, iterB, endB, ...) of
\* detail/JoinWhereIterator.hpp, over the whole of A and B
constructLoop(A, B) ==
    LET j == [iterA |-> 1, iterB |-> 1,
              found |-> IF 1 = EndB(B) THEN EndB(B) ELSE 1,
              touched |-> FALSE, ub |-> "none"]
    IN  IF j.iterA = EndA(A) \/ j.iterB = EndB(B) THEN j
        ELSE findNextLoop(A, B, j)

\* JoinWhereIterator(iterA, endA, iterB, endB, ...) of
\* detail/iterators/JoinWhereIterator.hpp, over the whole of A and B
constructFindIf(A, B) ==
    LET j == [iterA |-> 1, iterB |-> 1, found |-> 0,
              touched |-> FALSE, ub |-> "none"]
    IN  IF j.iterA = EndA(A) \/ j.iterB = EndB(B) THEN j
        ELSE findNextFindIf(A, B, j)

\* operator++() of detail/JoinWhereIterator.hpp
incrementLoop(A, B, j) == findNextLoop(A, B, j)

\* increment() without its ++_iterB: the search starts on the matched element
incrementFindIfFromMatch(A, B, j) ==
    IF j.iterB >= EndB(B) THEN [j EXCEPT !.iterB = j.iterB + 1, !.ub = "range"]
    ELSE findNextFindIf(A, B, j)

\* increment() of detail/iterators/JoinWhereIterator.hpp: ++_iterB; findNext();
\* incrementing an end iterator is undefined behaviour
incrementFindIf(A, B, j) ==
    IF j.iterB >= EndB(B) THEN [j EXCEPT !.iterB = j.iterB + 1, !.ub = "range"]
    ELSE findNextFindIf(A, B, [j EXCEPT !.iterB = j.iterB + 1])

\* dereferencing that reads *_iterB in both implementations
MatchedBIterB(impl, j) == j.iterB

\* the position of B that dereferencing reads: *_iterBFound in
\* detail/JoinWhereIterator.hpp, *_iterB in detail/iterators/JoinWhereIterator.hpp
MatchedB(impl, j) == IF impl = "loop" THEN j.found ELSE j.iterB

\* operator*() / dereference(): _resultSelector(*_iterA, *matched); reading
\* through an end iterator is undefined behaviour
jwDereference(impl, A, B, j) ==
    LET b == MatchedB(impl, j)
        okA == j.iterA >= 1 /\ j.iterA < EndA(A)
        okB == b >= 1 /\ b < EndB(B)
    IN  [val |-> <<IF okA THEN A[j.iterA] ELSE 0, IF okB THEN B[b] ELSE 0>>,
         pos |-> <<j.iterA, b>>,
         ub  |-> IF okA /\ okB THEN "none" ELSE "deref_end"]

\* an equality that compares the B position as well
jwEqBothPositions(j, other) == j.iterA = other.iterA /\ j.iterB = other.iterB

\* operator==(a, b) / eq(b): a._iterA == b._iterA
jwEq(j, other) == j.iterA = other.iterA

construct(impl, A, B) ==
    IF impl = "loop" THEN constructLoop(A, B) ELSE constructFindIf(A, B)

jwIncrement(impl, A, B, j) ==
    IF impl = "loop" THEN incrementLoop(A, B, j) ELSE incrementFindIf(A, B, j)

----------------------------------------------------------------------------
(* The join cursor as a state machine *)

\* the sequences of at most n elements of S
SeqsUpTo(S, n) == UNION {[1..k -> S] : k \in 0..n}

\* the example of the specification's section 8: the keys of A, the keys of
\* B and the payloads of B
ExampleA == <<1, 2, 2, 3>>
ExampleB == <<1, 2, 2, 4>>
ExamplePayloadB == <<"x", "y", "z", "w">>

JoinInputsA == SeqsUpTo(1..MaxKey, MaxLenA) \cup {ExampleA}

JoinInputsB == SeqsUpTo(1..MaxKey, MaxLenB) \cup {ExampleB}

\* the cursor held in the state
JCursor ==
    [iterA |-> jIterA, iterB |-> jIterB, found |-> jFound,
     touched |-> jTouched, ub |-> jUb]

\* the end cursor of the view: its A position is endA
JEndCursor ==
    [iterA |-> EndA(jA), iterB |-> EndB(jB), found |-> EndB(jB),
     touched |-> FALSE, ub |-> "none"]

\* a cursor constructed by a view over A and B, as its begin; there is no
\* cartesian-product cursor
JInit ==
    /\ jImpl \in {"loop", "find_if"}
    /\ jA \in JoinInputsA
    /\ jB \in JoinInputsB
    /\ LET j == construct(jImpl, jA, jB)
       IN  /\ jIterA = j.iterA
           /\ jIterB = j.iterB
           /\ jFound = j.found
           /\ jTouched = j.touched
           /\ jUb = j.ub
    /\ jOp = "construct"
    /\ jRead = FALSE
    /\ jVal = <<>>
    /\ jOut = <<>>
    /\ jReads = 0
    /\ cpBegin = <<>>
    /\ cpIterator = <<>>
    /\ cpEnd = <<>>
    /\ cpUb = "none"
    /\ cpOp = "idle"
    /\ cpPrev = <<>>
    /\ cpArg = 0
    /\ cpK = -1
    /\ cpOther = "none"
    /\ cpDist = 0
    /\ cpDistRev = 0
    /\ cpVal = <<>>
    /\ cpReads = 0
    /\ pW = <<>>
    /\ pCall = "idle"
    /\ pMissWrites = 0
    /\ pCommits = 0
    /\ xKind = "idle"
    /\ xSrc = <<>>
    /\ xAux = <<>>
    /\ xIt = [none |-> TRUE]
    /\ xCp = [none |-> TRUE]
    /\ xRet = [none |-> TRUE]
    /\ xOp = "idle"
    /\ xPrevIt = [none |-> TRUE]
    /\ xPrevCp = [none |-> TRUE]
    /\ ViewsIdle

\* *it, on a cursor that is not the end: the consumer reads the current result
JDereference ==
    /\ jImpl \in {"loop", "find_if"}
    /\ jUb = "none"
    /\ ~jwEq(JCursor, JEndCursor)
    /\ LET r == jwDereference(jImpl, jA, jB, JCursor)
       IN  /\ jVal' = r.val
           /\ jUb' = r.ub
           /\ jOut' = IF jRead THEN jOut ELSE Append(jOut, r.pos)
    /\ jRead' = TRUE
    /\ jReads < MaxReads
    /\ jReads' = jReads + 1
    /\ jOp' = "dereference"
    /\ UNCHANGED <<jImpl, jA, jB, jIterA, jIterB, jFound, jTouched>>
    /\ UNCHANGED <<cpVars, pVars, xVars, vVars>>

\* ++it, on a cursor that is not the end and whose result has been read
JIncrement ==
    /\ jImpl \in {"loop", "find_if"}
    /\ jUb = "none"
    /\ ~jwEq(JCursor, JEndCursor)
    /\ jRead
    /\ LET j == jwIncrement(jImpl, jA, jB, JCursor)
       IN  /\ jIterA' = j.iterA
           /\ jIterB' = j.iterB
           /\ jFound' = j.found
           /\ jUb' = j.ub
    /\ jRead' = FALSE
    /\ jVal' = <<>>
    /\ jOp' = "increment"
    /\ jReads' = 0
    /\ UNCHANGED <<jImpl, jA, jB, jTouched, jOut>>
    /\ UNCHANGED <<cpVars, pVars, xVars, vVars>>

JNext ==
    \/ JDereference
    \/ JIncrement

----------------------------------------------------------------------------
(* findNext() under a parallel execution policy                            *)
(*                                                                         *)
(* std::find_if(_exec, _iterA, _endA, pred) invokes pred on the elements   *)
(* of [_iterA, _endA) from several threads and returns the first position  *)
(* whose invocation returned true.  findNext() locks a mutex that is local *)
(* to the call before it starts std::find_if and holds it until it         *)
(* returns; pred captures the mutex and never locks it, so that the        *)
(* invocations read and write _iterB without synchronisation.  An          *)
(* invocation is modelled by its accesses to _iterB, one step each: the    *)
(* read for the first argument of std::lower_bound, the write of its       *)
(* result, the read that the test against _endB makes, the read that the   *)
(* dereference makes and, without a match, the write of _beginB.           *)

\* the largest number of elements of A and of B, and the largest key, of a
\* cursor under a parallel policy
MaxParLenA == 2
MaxParLenB == 2
MaxParKey == 2

\* an invocation of pred that has not started
IdleWorker == [pc |-> "idle", first |-> 0, r |-> 0, ret |-> FALSE]

\* the positions [_iterA, _endA) that std::find_if scans
ParRange == jIterA..Len(jA)

ParInputsA == SeqsUpTo(1..MaxParKey, MaxParLenA)

\* B is sorted by key, as the join requires
ParInputsB ==
    {B \in SeqsUpTo(1..MaxParKey, MaxParLenB) :
        \A i \in 1..Len(B) : \A k \in i..Len(B) : B[i] <= B[k]}

\* the constructor under a parallel policy: findNext() starts unless A or B
\* is empty
ParInit ==
    /\ jImpl = "par"
    /\ jA \in ParInputsA
    /\ jB \in ParInputsB
    /\ jIterA = 1
    /\ jIterB = 1
    /\ jFound = 0
    /\ jTouched = FALSE
    /\ jUb = "none"
    /\ jOp = IF 1 = EndA(jA) \/ 1 = EndB(jB) THEN "construct" ELSE "searching"
    /\ jRead = FALSE
    /\ jVal = <<>>
    /\ jOut = <<>>
    /\ jReads = 0
    /\ pW = [i \in 1..Len(jA) |-> IdleWorker]
    /\ pCall = "construct"
    /\ pMissWrites = 0
    /\ pCommits = 0
    /\ cpBegin = <<>>
    /\ cpIterator = <<>>
    /\ cpEnd = <<>>
    /\ cpUb = "none"
    /\ cpOp = "idle"
    /\ cpPrev = <<>>
    /\ cpArg = 0
    /\ cpK = -1
    /\ cpOther = "none"
    /\ cpDist = 0
    /\ cpDistRev = 0
    /\ cpVal = <<>>
    /\ cpReads = 0
    /\ xKind = "idle"
    /\ xSrc = <<>>
    /\ xAux = <<>>
    /\ xIt = [none |-> TRUE]
    /\ xCp = [none |-> TRUE]
    /\ xRet = [none |-> TRUE]
    /\ xOp = "idle"
    /\ xPrevIt = [none |-> TRUE]
    /\ xPrevCp = [none |-> TRUE]
    /\ ViewsIdle

\* pred(a) for the element at position i starts: std::move(_iterB), the first
\* argument of std::lower_bound, reads _iterB
ParLoadFirst(i) ==
    /\ jImpl = "par"
    /\ jOp = "searching"
    /\ i \in ParRange
    /\ pW[i].pc = "idle"
    /\ pW' = [pW EXCEPT ![i].pc = "read", ![i].first = jIterB]
    /\ UNCHANGED <<jImpl, jA, jB, jIterA, jIterB, jFound, jUb, jOp, jTouched,
                   jRead, jVal, jOut, jReads, pCall, pMissWrites, pCommits>>
    /\ UNCHANGED <<cpVars, xVars, vVars>>

\* _iterB = std::lower_bound(first, _endB, toFind, ...)
ParSearch(i) ==
    /\ jImpl = "par"
    /\ jOp = "searching"
    /\ i \in ParRange
    /\ pW[i].pc = "read"
    /\ LET r == lowerBound(jB, pW[i].first, EndB(jB), jA[i])
       IN  /\ jIterB' = r
           /\ pW' = [pW EXCEPT ![i].pc = "searched", ![i].r = r]
    /\ jTouched' = TRUE
    /\ UNCHANGED <<jImpl, jA, jB, jIterA, jFound, jUb, jOp, jRead, jVal, jOut,
                   jReads, pCall, pMissWrites, pCommits>>
    /\ UNCHANGED <<cpVars, xVars, vVars>>

\* the invocation at position i returns true: it has found a match
ParCommit(i) ==
    /\ pW' = [pW EXCEPT ![i].pc = "done", ![i].ret = TRUE]
    /\ pCommits' = pCommits + 1
    /\ UNCHANGED pMissWrites

\* the invocation at position i has found no match, after it has written
\* _iterB; it goes on to _iterB = _beginB
ParMiss(i) ==
    /\ pW' = [pW EXCEPT ![i].pc = "miss"]
    /\ pMissWrites' = pMissWrites + 1
    /\ UNCHANGED pCommits

\* if (_iterB != _endB && ...): the first operand reads _iterB, which holds
\* what this invocation wrote or what another invocation has written since;
\* at the end of B the second operand is not evaluated
ParTest(i) ==
    /\ jImpl = "par"
    /\ jOp = "searching"
    /\ i \in ParRange
    /\ pW[i].pc = "searched"
    /\ IF jIterB # EndB(jB)
       THEN /\ pW' = [pW EXCEPT ![i].pc = "tested"]
            /\ UNCHANGED <<pMissWrites, pCommits>>
       ELSE ParMiss(i)
    /\ UNCHANGED <<jImpl, jA, jB, jIterA, jIterB, jFound, jUb, jOp, jTouched,
                   jRead, jVal, jOut, jReads, pCall>>
    /\ UNCHANGED <<cpVars, xVars, vVars>>

\* ... && !(toFind < _selectorB(*_iterB))) return true; the second operand
\* reads _iterB again and dereferences it.  When another invocation has
\* moved _iterB to the end of B since the first operand was evaluated, the
\* read is through the end iterator: undefined behaviour, and what is read
\* decides whether the invocation returns true
ParTestKey(i) ==
    /\ jImpl = "par"
    /\ jOp = "searching"
    /\ i \in ParRange
    /\ pW[i].pc = "tested"
    /\ IF jIterB >= BeginB(jB) /\ jIterB < EndB(jB)
       THEN /\ IF ~(jA[i] < jB[jIterB]) THEN ParCommit(i) ELSE ParMiss(i)
            /\ UNCHANGED jUb
       ELSE /\ ParCommit(i) \/ ParMiss(i)
            /\ jUb' = "deref_end"
    /\ UNCHANGED <<jImpl, jA, jB, jIterA, jIterB, jFound, jOp, jTouched,
                   jRead, jVal, jOut, jReads, pCall>>
    /\ UNCHANGED <<cpVars, xVars, vVars>>

\* _iterB = _beginB; return false;
ParReset(i) ==
    /\ jImpl = "par"
    /\ jOp = "searching"
    /\ i \in ParRange
    /\ pW[i].pc = "miss"
    /\ jIterB' = BeginB(jB)
    /\ pW' = [pW EXCEPT ![i].pc = "done", ![i].ret = FALSE]
    /\ pMissWrites' = pMissWrites + 1
    /\ UNCHANGED <<jImpl, jA, jB, jIterA, jFound, jUb, jOp, jTouched, jRead,
                   jVal, jOut, jReads, pCall, pCommits>>
    /\ UNCHANGED <<cpVars, xVars, vVars>>

\* the positions std::find_if may return: the first whose invocation
\* returned true, every earlier one having returned false
ParHits ==
    {i \in ParRange :
        /\ pW[i].pc = "done" /\ pW[i].ret
        /\ \A k \in ParRange : k < i => (pW[k].pc = "done" /\ ~pW[k].ret)}

\* std::find_if returns and findNext() assigns _iterA: no invocation is
\* running, and either one returned true or all of them returned false
ParFinish ==
    /\ jImpl = "par"
    /\ jOp = "searching"
    /\ \A i \in ParRange : pW[i].pc \in {"idle", "done"}
    /\ \/ ParHits # {}
       \/ \A i \in ParRange : pW[i].pc = "done" /\ ~pW[i].ret
    /\ jIterA' = IF ParHits # {} THEN CHOOSE i \in ParHits : TRUE ELSE EndA(jA)
    /\ jOp' = pCall
    /\ pW' = [i \in 1..Len(jA) |-> IdleWorker]
    /\ UNCHANGED <<jImpl, jA, jB, jIterB, jFound, jUb, jTouched, jRead, jVal,
                   jOut, jReads, pCall, pMissWrites, pCommits>>
    /\ UNCHANGED <<cpVars, xVars, vVars>>

\* *it, on a cursor that is not the end
ParDereference ==
    /\ jImpl = "par"
    /\ jOp \in {"construct", "increment", "dereference"}
    /\ jUb = "none"
    /\ ~jwEq(JCursor, JEndCursor)
    /\ LET r == jwDereference(jImpl, jA, jB, JCursor)
       IN  /\ jVal' = r.val
           /\ jUb' = r.ub
    /\ jRead' = TRUE
    /\ jReads < MaxReads
    /\ jReads' = jReads + 1
    /\ jOp' = "dereference"
    /\ UNCHANGED <<jImpl, jA, jB, jIterA, jIterB, jFound, jTouched, jOut>>
    /\ UNCHANGED pVars
    /\ UNCHANGED <<cpVars, xVars, vVars>>

\* ++it, on a cursor that is not the end and whose result has been read:
\* ++_iterB, then findNext() starts
ParIncrement ==
    /\ jImpl = "par"
    /\ jOp \in {"construct", "increment", "dereference"}
    /\ jUb = "none"
    /\ ~jwEq(JCursor, JEndCursor)
    /\ jRead
    /\ jIterB' = jIterB + 1
    /\ jUb' = IF jIterB >= EndB(jB) THEN "range" ELSE "none"
    /\ jOp' = IF jIterB >= EndB(jB) THEN "increment" ELSE "searching"
    /\ pCall' = "increment"
    /\ pMissWrites' = 0
    /\ pCommits' = 0
    /\ jRead' = FALSE
    /\ jVal' = <<>>
    /\ jReads' = 0
    /\ UNCHANGED <<jImpl, jA, jB, jIterA, jFound, jTouched, jOut, pW>>
    /\ UNCHANGED <<cpVars, xVars, vVars>>

ParNext ==
    \/ \E i \in 1..Len(jA) : ParLoadFirst(i)
    \/ \E i \in 1..Len(jA) : ParSearch(i)
    \/ \E i \in 1..Len(jA) : ParTest(i)
    \/ \E i \in 1..Len(jA) : ParTestKey(i)
    \/ \E i \in 1..Len(jA) : ParReset(i)
    \/ ParFinish
    \/ ParDereference
    \/ ParIncrement

----------------------------------------------------------------------------
(* MapIterator and ExceptIterator                                          *)
(*                                                                         *)
(* A MapIterator is the record [iterator]; an ExceptIterator is the record *)
(* [iterator, end] (its _iteratorHelper points to the sequence to except,  *)
(* which the view owns and no cursor changes).  Positions are 1 .. Len of  *)
(* the source sequence, and Len + 1 is its end.  The field ub of a cursor  *)
(* records that an operation on it had undefined behaviour: "range" when   *)
(* it moved the underlying iterator out of [begin, end] of the source.     *)

\* MapIterator(iterator, function)
mapConstruct(it) == [iterator |-> it, ub |-> "none"]

\* MapIterator::operator++()
mapIncrement(c) == [c EXCEPT !.iterator = c.iterator + 1]

\* MapIterator::operator++(int): MapIterator tmp(*this); ++*this; return tmp;
mapPostIncrement(c) == [ret |-> c, self |-> mapIncrement(c)]

\* the underlying iterator of a MapIterator moved by n positions: the
\* arithmetic is done on _iterator wherever it leads, and a move out of
\* [begin, end] of the source S is undefined behaviour
mapMove(S, c, n) ==
    IF c.iterator + n \in 1..(Len(S) + 1)
    THEN [c EXCEPT !.iterator = c.iterator + n]
    ELSE [c EXCEPT !.iterator = c.iterator + n, !.ub = "range"]

\* MapIterator::operator--(): --_iterator; return *this;
mapDecrement(S, c) == mapMove(S, c, -1)

\* MapIterator::operator--(int): MapIterator tmp(*this); --*this; return tmp;
mapPostDecrement(S, c) == [ret |-> c, self |-> mapDecrement(S, c)]

\* MapIterator::operator+=(offset): _iterator += offset; return *this;
mapPlusIs(S, c, offset) == mapMove(S, c, offset)

\* MapIterator::operator-=(offset): _iterator -= offset; return *this;
mapMinusIs(S, c, offset) == mapMove(S, c, -offset)

\* operator!=(a, b) of MapIterator
mapNe(a, b) == a.iterator # b.iterator

\* operator==(a, b) of MapIterator
mapEq(a, b) == ~mapNe(a, b)

RECURSIVE stdFindFrom(_, _, _)
\* the loop of std::find from position k
stdFindFrom(E, k, v) ==
    IF k > Len(E) THEN Len(E) + 1
    ELSE IF E[k] = v THEN k
    ELSE stdFindFrom(E, k + 1, v)

\* std::find(toExceptBegin, toExceptEnd, v): the first position of E with
\* the value v, or the end of E
stdFind(E, v) == stdFindFrom(E, 1, v)

\* ExceptIterator(begin, end, iteratorHelper)
exceptConstruct(begin, end) == [iterator |-> begin, end |-> end, ub |-> "none"]

\* *_iterator designates an element of the source; reading through any other
\* position (the end of the source) is undefined behaviour
exceptReadable(S, c) == c.iterator \in 1..Len(S)

RECURSIVE exceptFindLoopNoEndTest(_, _, _, _)
\* the while loop of find() without its test of _iterator == _end
exceptFindLoopNoEndTest(S, E, c, it) ==
    IF it = Len(E) + 1 THEN c
    ELSE LET c1 == [c EXCEPT !.iterator = c.iterator + 1]
         IN  IF ~exceptReadable(S, c1) THEN [c1 EXCEPT !.ub = "deref_end"]
             ELSE exceptFindLoopNoEndTest(S, E, c1, stdFind(E, S[c1.iterator]))

RECURSIVE exceptFindLoop(_, _, _, _)
\* the while loop of find(), entered with it the result of the last std::find
exceptFindLoop(S, E, c, it) ==
    IF it = Len(E) + 1 THEN c
    ELSE LET c1 == [c EXCEPT !.iterator = c.iterator + 1]
         IN  IF c1.iterator = c1.end THEN c1
             ELSE IF ~exceptReadable(S, c1) THEN [c1 EXCEPT !.ub = "deref_end"]
             ELSE exceptFindLoop(S, E, c1, stdFind(E, S[c1.iterator]))

\* find() that stops after the first element it skips
exceptFindOnce(S, E, c) ==
    IF ~exceptReadable(S, c) THEN [c EXCEPT !.ub = "deref_end"]
    ELSE IF stdFind(E, S[c.iterator]) = Len(E) + 1 THEN c
    ELSE [c EXCEPT !.iterator = c.iterator + 1]

\* ExceptIterator::find(): skip the elements found in the sequence to except
exceptFind(S, E, c) ==
    IF ~exceptReadable(S, c) THEN [c EXCEPT !.ub = "deref_end"]
    ELSE exceptFindLoop(S, E, c, stdFind(E, S[c.iterator]))

\* ExceptIterator::operator++()
exceptIncrement(S, E, c) ==
    LET c1 == [c EXCEPT !.iterator = c.iterator + 1]
    IN  IF c1.iterator # c1.end THEN exceptFind(S, E, c1) ELSE c1

\* operator++(int) that returns the cursor after the increment
exceptPostIncrementAdvanced(S, E, c) ==
    [ret |-> exceptIncrement(S, E, c), self |-> exceptIncrement(S, E, c)]

\* ExceptIterator::operator++(int): ExceptIterator tmp(*this); ++*this;
\* return tmp;
exceptPostIncrement(S, E, c) == [ret |-> c, self |-> exceptIncrement(S, E, c)]

\* ExceptIterator::operator!=(other): _iterator != other._end
exceptNe(c, other) == c.iterator # other.end

\* ExceptIterator::operator==(other): !(*this != other)
exceptEq(c, other) == ~exceptNe(c, other)

\* operator++(int) of detail/JoinWhereIterator.hpp: JoinWhereIterator
\* tmp(*this); ++*this; return tmp;
joinPostIncrement(A, B, j) == [ret |-> j, self |-> incrementLoop(A, B, j)]

----------------------------------------------------------------------------
(* Two cursors over one view as a state machine *)

\* the largest number of elements of the source of a map or except cursor
\* (of A, for a join), of B for a join, and the largest value (key)
MaxCopyLen == 3
MaxCopyAux == 2
MaxCopyKey == 2

\* the largest number of elements of the sequence to except
MaxCopyExcept == 1

\* the largest offset, in absolute value, of += and -= on a map cursor
MaxCopyOffset == 2

\* no cursor
NoCursor == [none |-> TRUE]

\* the end position of the source
XEnd == Len(xSrc) + 1

\* ++c for a cursor of the kind of the state
XIncrement(c) ==
    CASE xKind = "map" -> mapIncrement(c)
      [] xKind = "except" -> exceptIncrement(xSrc, xAux, c)
      [] OTHER -> incrementLoop(xSrc, xAux, c)

\* c++ for a cursor of the kind of the state: [ret, self]
XPostIncrement(c) ==
    CASE xKind = "map" -> mapPostIncrement(c)
      [] xKind = "except" -> exceptPostIncrement(xSrc, xAux, c)
      [] OTHER -> joinPostIncrement(xSrc, xAux, c)

\* c is at the end of its view: it is not != the view's end cursor
XAtEnd(c) ==
    CASE xKind = "map" -> ~mapNe(c, mapConstruct(XEnd))
      [] xKind = "except" -> ~exceptNe(c, exceptConstruct(XEnd, XEnd))
      [] OTHER -> c.iterA = EndA(xSrc)

\* a cursor of the kind of the state constructed at position p
XConstructAt(p) ==
    CASE xKind = "map" -> mapConstruct(p)
      [] xKind = "except" -> exceptConstruct(p, XEnd)
      [] OTHER -> constructLoop(xSrc, xAux)

\* a view is made and a first cursor constructed: a map or except cursor at
\* any position of the source, a join cursor as the begin of the join
XInit ==
    /\ xKind \in {"map", "except", "join"}
    /\ xSrc \in SeqsUpTo(1..MaxCopyKey, MaxCopyLen)
    /\ xAux \in IF xKind = "map" THEN {<<>>}
                ELSE IF xKind = "except" THEN SeqsUpTo(1..MaxCopyKey, MaxCopyExcept)
                ELSE {B \in SeqsUpTo(1..MaxCopyKey, MaxCopyAux) :
                        \A i \in 1..Len(B) : \A k \in i..Len(B) : B[i] <= B[k]}
    /\ \E p \in IF xKind = "join" THEN {1} ELSE 1..XEnd : xIt = XConstructAt(p)
    /\ xCp = NoCursor
    /\ xRet = NoCursor
    /\ xOp = "construct"
    /\ xPrevIt = xIt
    /\ xPrevCp = xCp
    /\ cpBegin = <<>>
    /\ cpIterator = <<>>
    /\ cpEnd = <<>>
    /\ cpUb = "none"
    /\ cpOp = "idle"
    /\ cpPrev = <<>>
    /\ cpArg = 0
    /\ cpK = -1
    /\ cpOther = "none"
    /\ cpDist = 0
    /\ cpDistRev = 0
    /\ cpVal = <<>>
    /\ cpReads = 0
    /\ jImpl = "idle"
    /\ jA = <<>>
    /\ jB = <<>>
    /\ jIterA = 1
    /\ jIterB = 1
    /\ jFound = 0
    /\ jUb = "none"
    /\ jOp = "idle"
    /\ jTouched = FALSE
    /\ jRead = FALSE
    /\ jVal = <<>>
    /\ jOut = <<>>
    /\ jReads = 0
    /\ pW = <<>>
    /\ pCall = "idle"
    /\ pMissWrites = 0
    /\ pCommits = 0
    /\ ViewsIdle

\* what every operation on the two cursors records
XRecord(op) ==
    /\ xOp' = op
    /\ xPrevIt' = xIt
    /\ xPrevCp' = xCp
    /\ UNCHANGED <<xKind, xSrc, xAux>>
    /\ UNCHANGED <<cpVars, jVars, pVars, vVars>>

\* no operation on the map cursor c has had undefined behaviour
XDefined(c) == xKind = "map" => c.ub = "none"

\* the copy constructor: the second cursor becomes a copy of the first
XCopy ==
    /\ xKind # "idle"
    /\ XDefined(xIt)
    /\ xCp' = xIt
    /\ UNCHANGED <<xIt, xRet>>
    /\ XRecord("copy")

\* a second map or except cursor is constructed on its own at position p
XConstructOther ==
    /\ xKind \in {"map", "except"}
    /\ \E p \in 1..XEnd : xCp' = XConstructAt(p)
    /\ UNCHANGED <<xIt, xRet>>
    /\ XRecord("construct_other")

\* ++ on the first cursor, which is not at the end
XIncrementIt ==
    /\ xKind # "idle"
    /\ XDefined(xIt)
    /\ ~XAtEnd(xIt)
    /\ xIt' = XIncrement(xIt)
    /\ UNCHANGED <<xCp, xRet>>
    /\ XRecord("inc_it")

\* ++ on the second cursor, which is not at the end
XIncrementCp ==
    /\ xKind # "idle"
    /\ xCp # NoCursor
    /\ XDefined(xCp)
    /\ ~XAtEnd(xCp)
    /\ xCp' = XIncrement(xCp)
    /\ UNCHANGED <<xIt, xRet>>
    /\ XRecord("inc_cp")

\* post-increment of the first cursor, which is not at the end
XPostIncrementIt ==
    /\ xKind # "idle"
    /\ XDefined(xIt)
    /\ ~XAtEnd(xIt)
    /\ xIt' = XPostIncrement(xIt).self
    /\ xRet' = XPostIncrement(xIt).ret
    /\ UNCHANGED xCp
    /\ XRecord("postinc")

\* -- on the first cursor, a map cursor at any position
XDecrementIt ==
    /\ xKind = "map"
    /\ XDefined(xIt)
    /\ xIt' = mapDecrement(xSrc, xIt)
    /\ UNCHANGED <<xCp, xRet>>
    /\ XRecord("dec_it")

\* post-decrement of the first cursor, a map cursor at any position
XPostDecrementIt ==
    /\ xKind = "map"
    /\ XDefined(xIt)
    /\ xIt' = mapPostDecrement(xSrc, xIt).self
    /\ xRet' = mapPostDecrement(xSrc, xIt).ret
    /\ UNCHANGED xCp
    /\ XRecord("postdec")

\* += offset on the first cursor, a map cursor at any position
XPlusIsIt ==
    /\ xKind = "map"
    /\ XDefined(xIt)
    /\ \E offset \in (-MaxCopyOffset)..MaxCopyOffset :
          xIt' = mapPlusIs(xSrc, xIt, offset)
    /\ UNCHANGED <<xCp, xRet>>
    /\ XRecord("plus_is")

\* -= offset on the first cursor, a map cursor at any position
XMinusIsIt ==
    /\ xKind = "map"
    /\ XDefined(xIt)
    /\ \E offset \in (-MaxCopyOffset)..MaxCopyOffset :
          xIt' = mapMinusIs(xSrc, xIt, offset)
    /\ UNCHANGED <<xCp, xRet>>
    /\ XRecord("minus_is")

XNext ==
    \/ XCopy
    \/ XConstructOther
    \/ XIncrementIt
    \/ XIncrementCp
    \/ XPostIncrementIt
    \/ XDecrementIt
    \/ XPostDecrementIt
    \/ XPlusIsIt
    \/ XMinusIsIt

----------------------------------------------------------------------------
(* Generate (Generate.hpp): the view generate() builds.  The constructor of *)
(* Generate constructs the begin and the end cursor of the view from a     *)
(* counter, the generator function and the while-true flag; a cursor is    *)
(* modelled by the counter and the flag it is constructed from.            *)

\* the largest value of std::size_t, (std::numeric_limits<std::size_t>::max)()
SizeMax == 2^SizeBits - 1

\* the constructor of Generate: begin is iterator(0, func, isWhileTrueLoop)
\* and end is iterator(amount, func, isWhileTrueLoop)
Generate(amount, isWhileTrueLoop) ==
    [begin |-> [counter |-> 0, isWhileTrueLoop |-> isWhileTrueLoop],
     end |-> [counter |-> amount, isWhileTrueLoop |-> isWhileTrueLoop]]

\* generate() marking the view unbounded only when the amount is omitted
generateOmittedOnly(args) ==
    LET amount == IF args = <<>> THEN SizeMax ELSE args[1]
    IN  Generate(amount, args = <<>>)

\* generate(generatorFunc, amount): args is <<amount>>, or <<>> when the
\* amount is left to its default
generate(args) ==
    LET amount == IF args = <<>> THEN SizeMax ELSE args[1]
    IN  Generate(amount, amount = SizeMax)

\* the amounts generate() is called with: any std::size_t, or none
GenerateArgs == {<<>>} \cup {<<n>> : n \in 0..SizeMax}

\* generate(func, amount) is called for the first time
GInit ==
    /\ gArgs \in GenerateArgs
    /\ gView = generate(gArgs)
    /\ gCalls = 1
    /\ gOp = "construct"
    /\ CursorsIdle
    /\ EnumIdle

\* generate(func, amount) is called again and the caller keeps the new view
GGenerate ==
    /\ gOp # "idle"
    /\ gCalls < MaxCalls
    /\ \E args \in GenerateArgs :
          /\ gArgs' = args
          /\ gView' = generate(args)
    /\ gCalls' = gCalls + 1
    /\ gOp' = "generate"
    /\ UNCHANGED <<cpVars, jVars, pVars, xVars, eVars>>

GNext == GGenerate

----------------------------------------------------------------------------
(* Enumerate (Enumerate.hpp): the view enumerate() builds over a sequence  *)
(* and a start index, and a cursor of it.  The cursor type,                *)
(* EnumerateIterator, pairs a counting index with an iterator of the       *)
(* sequence: increment and decrement move both by one, dereferencing gives *)
(* the pair of the index and the element, and two cursors are equal when   *)
(* their iterators are.  A position of the sequence is 1 .. Len, Len + 1   *)
(* the end.                                                                *)

\* EnumerateIterator(start, iterator)
EnumerateIterator(start, iterator) == [index |-> start, iterator |-> iterator]

\* EnumerateIterator::operator++
enumerateIncrement(it) ==
    [index |-> it.index + 1, iterator |-> it.iterator + 1]

\* EnumerateIterator::operator--
enumerateDecrement(it) ==
    [index |-> it.index - 1, iterator |-> it.iterator - 1]

\* EnumerateIterator::operator*: the pair of the index and the element
enumerateDereference(S, it) == <<it.index, S[it.iterator]>>

\* EnumerateIterator::operator!=
enumerateNe(it, other) == it.iterator # other.iterator

\* the constructor of Enumerate over the whole of S: begin is
\* iterator(start, begin) and end is iterator(std::distance(begin, end), end)
Enumerate(S, start) ==
    [begin |-> EnumerateIterator(start, 1),
     end |-> EnumerateIterator((Len(S) + 1) - 1, Len(S) + 1)]

\* enumerateRange(begin, end, start) and enumerate(iterable, start)
enumerateRange(S, start) == Enumerate(S, start)

\* the view is built and a cursor taken, its begin or its end
EInit ==
    /\ eSrc \in SeqsUpTo(1..MaxEnumKey, MaxEnumLen)
    /\ eStart \in 0..MaxEnumStart
    /\ eView = enumerateRange(eSrc, eStart)
    /\ eIt \in {eView.begin, eView.end}
    /\ eVal = <<>>
    /\ eOp = "construct"
    /\ CursorsIdle
    /\ GenIdle

\* ++it, on a cursor that is not the end
EIncrement ==
    /\ eOp # "idle"
    /\ enumerateNe(eIt, eView.end)
    /\ eIt' = enumerateIncrement(eIt)
    /\ eVal' = <<>>
    /\ eOp' = "increment"
    /\ UNCHANGED <<eSrc, eStart, eView>>
    /\ UNCHANGED <<cpVars, jVars, pVars, xVars, gVars>>

\* --it, on a cursor that is not the begin
EDecrement ==
    /\ eOp # "idle"
    /\ enumerateNe(eIt, eView.begin)
    /\ eIt' = enumerateDecrement(eIt)
    /\ eVal' = <<>>
    /\ eOp' = "decrement"
    /\ UNCHANGED <<eSrc, eStart, eView>>
    /\ UNCHANGED <<cpVars, jVars, pVars, xVars, gVars>>

\* *it, on a cursor that is not the end
EDereference ==
    /\ eOp \in {"construct", "increment", "decrement"}
    /\ enumerateNe(eIt, eView.end)
    /\ eVal' = enumerateDereference(eSrc, eIt)
    /\ eOp' = "dereference"
    /\ UNCHANGED <<eSrc, eStart, eView, eIt>>
    /\ UNCHANGED <<cpVars, jVars, pVars, xVars, gVars>>

ENext ==
    \/ EIncrement
    \/ EDecrement
    \/ EDereference

----------------------------------------------------------------------------
(* Specifications *)

\* the cartesian-product cursor alone
SpecCP == CPInit /\ [][CPNext]_vars

\* the join cursor alone
SpecJoin == JInit /\ [][JNext]_vars

\* a serial cursor of either kind
SpecCursors == (CPInit \/ JInit) /\ [][CPNext \/ JNext]_vars

\* the join cursor under a parallel policy alone
SpecPar == ParInit /\ [][ParNext]_vars

\* two cursors over one map, except or join view
SpecCopy == XInit /\ [][XNext]_vars

\* the views generate() builds
SpecGenerate == GInit /\ [][GNext]_vars

\* a cursor of an Enumerate view
SpecEnumerate == EInit /\ [][ENext]_vars

Init == CPInit \/ JInit \/ ParInit \/ XInit \/ GInit \/ EInit

Next == CPNext \/ JNext \/ ParNext \/ XNext \/ GNext \/ ENext

\* one cursor of either kind
Spec == Init /\ [][Next]_vars

----------------------------------------------------------------------------
(* Properties of the cartesian-product cursor (checked under SpecCP) *)

\* there is a cursor and every one of its sequences has an element
CPNonEmpty ==
    /\ cpOp # "idle"
    /\ \A d \in 1..Len(cpEnd) : cpEnd[d] > cpBegin[d]

RECURSIVE SuffixProd(_, _, _)
\* sizes[d + 1] * ... * sizes[n]: the weight of dimension d
SuffixProd(sizes, d, n) ==
    IF d >= n THEN 1 ELSE sizes[d + 1] * SuffixProd(sizes, d + 1, n)

\* the k-th position in lexicographic order, the last dimension the fastest,
\* counting from 0; the CPProduct-th is the end
CPPosOf(k) ==
    IF k = CPProduct THEN cpEnd
    ELSE [d \in 1..Len(cpEnd) |->
            cpBegin[d] + ((k \div SuffixProd(CPSizes, d, Len(cpEnd))) % CPSizes[d])]

\* it designates an element in every dimension
CPValidPos(it) ==
    \A d \in 1..Len(cpEnd) : it[d] >= cpBegin[d] /\ it[d] < cpEnd[d]

\* the last combination: every dimension at its last element
CPLast == [d \in 1..Len(cpEnd) |-> cpEnd[d] - 1]

RECURSIVE IncN(_, _)
\* k successive increments
IncN(c, k) == IF k = 0 THEN c ELSE IncN(cpIncrement(c), k - 1)

RECURSIVE DecN(_, _)
\* k successive decrements
DecN(c, k) == IF k = 0 THEN c ELSE DecN(cpDecrement(c), k - 1)

\* C1: over non-empty sequences, the cursor reached from begin by k increments
\* is at the k-th tuple of the lexicographic order in which the last dimension
\* varies fastest, for every k below the product of the sizes, and it equals
\* the end cursor exactly after as many increments as the product of the sizes;
\* dereferencing it returns the elements at that tuple.
C1_VisitsProductInOrder ==
    (CPNonEmpty /\ cpK >= 0) =>
        /\ cpK <= CPProduct
        /\ cpIterator = CPPosOf(cpK)
        /\ cpEq(CPCursor, CPEndCursor) <=> (cpK = CPProduct)
        /\ cpK < CPProduct => CPValidPos(cpIterator)
        /\ cpVal # <<>> =>
              /\ cpUb = "none"
              /\ cpVal = [d \in 1..Len(cpEnd) |-> ElemAt(d, CPPosOf(cpK)[d])]

\* C1 witness: a traversal of a product of at least four tuples with a
\* dimension of one element has reached the end
C1_Witness ==
    /\ CPNonEmpty
    /\ cpK = CPProduct
    /\ cpEq(CPCursor, CPEndCursor)
    /\ CPProduct >= 4
    /\ \E d \in 1..Len(cpEnd) : CPSizes[d] = 1

\* C6: after the begin cursor was advanced by k, 0 <= k <= product of the
\* sizes, the distance from begin to the cursor is k.
C6_RoundTripFromBegin ==
    (/\ CPNonEmpty
     /\ cpOp = "plusIs"
     /\ cpPrev = cpBegin
     /\ cpArg >= 0
     /\ cpOther = "begin") => (cpUb = "none" /\ cpDist = cpArg)

\* C7: over non-empty sequences, end - begin is the product of the sizes,
\* and so is the number of increments that lead from begin to end.
C7_DistanceBeginToEnd ==
    (/\ CPNonEmpty
     /\ cpEq(CPCursor, CPEndCursor)
     /\ cpOther = "begin") =>
        /\ cpDist = CPProduct
        /\ cpK >= 0 => cpK = cpDist

\* C7 witness: a traversal by increments has reached the end of a product of
\* at least four tuples, and end - begin was taken
C7_Witness ==
    /\ CPNonEmpty
    /\ cpEq(CPCursor, CPEndCursor)
    /\ cpOther = "begin"
    /\ cpK = CPProduct
    /\ CPProduct >= 4

\* C8: decrementing a cursor in the terminal state yields the last
\* combination, which equals, and dereferences to the same tuple as, the
\* begin cursor advanced by the product of the sizes minus one.
C8_DecrementFromEnd ==
    (/\ CPNonEmpty
     /\ cpOp = "decrement"
     /\ cpPrev = cpEnd) =>
        LET r == cpPlusIs(CPBeginCursor, CPProduct - 1)
        IN  /\ cpUb = "none"
            /\ cpIterator = CPLast
            /\ r.ub = "none"
            /\ cpEq(CPCursor, r)
            /\ cpDereference(CPCursor) = cpDereference(r)
            /\ cpDereference(r).ub = "none"

\* C8 witness: the end cursor of a product of at least four tuples was
\* decremented
C8_Witness ==
    /\ CPNonEmpty
    /\ cpOp = "decrement"
    /\ cpPrev = cpEnd
    /\ CPProduct >= 4

\* C9: advancing by k > 0 from a position p that designates a tuple, with k
\* at most the distance left to the end, gives the cursor that k increments
\* from p give.
C9_AdvanceIsIncrements ==
    (/\ CPNonEmpty
     /\ cpOp = "plusIs"
     /\ cpArg > 0
     /\ CPValidPos(cpPrev)
     /\ CPOrd(cpPrev) + cpArg <= CPProduct) =>
        /\ cpUb = "none"
        /\ cpIterator = IncN(Cursor(cpBegin, cpPrev, cpEnd), cpArg).it

\* C10: advancing by -k, k > 0, from a position p that designates a tuple or
\* is the end, with k at most the number of increments from begin to p,
\* gives the cursor that k decrements from p give.
C10_RetreatIsDecrements ==
    (/\ CPNonEmpty
     /\ cpOp = "plusIs"
     /\ cpArg < 0
     /\ (CPValidPos(cpPrev) \/ cpPrev = cpEnd)
     /\ CPOrd(cpPrev) + cpArg >= 0) =>
        /\ cpUb = "none"
        /\ cpIterator = DecN(Cursor(cpBegin, cpPrev, cpEnd), -cpArg).it

\* it is the terminal position or designates an element in every dimension
CPGoodPos(it) == it = cpEnd \/ CPValidPos(it)

\* C11 as stated: in every observable state no dimension after the first is
\* at its end, and the cursor is exhausted exactly when the first dimension
\* is at its end and every other dimension is at its begin (stated here of
\* the states that an increment, a decrement or a jump leaves, over
\* non-empty sequences).
C11_InnerDimensionsNeverAtEnd ==
    (CPNonEmpty /\ cpOp \in {"increment", "decrement", "plusIs"}
                /\ cpUb = "none") =>
        /\ \A d \in 2..Len(cpEnd) : cpIterator[d] # cpEnd[d]
        /\ cpEq(CPCursor, CPEndCursor) <=>
              /\ cpIterator[1] = cpEnd[1]
              /\ \A d \in 2..Len(cpEnd) : cpIterator[d] = cpBegin[d]

\* C11 amended: the exhausted state is the one where every dimension is at
\* its end; after an increment or a jump the first dimension is at its end
\* only in that state; over non-empty sequences a cursor is constructed
\* exhausted or with every dimension on an element, and an increment or a
\* decrement of such a cursor gives such a cursor again.
C11_ExhaustedIsEveryDimensionAtEnd ==
    (cpOp # "idle" /\ cpUb = "none") =>
        /\ cpEq(CPCursor, CPEndCursor) <=>
              \A d \in 1..Len(cpEnd) : cpIterator[d] = cpEnd[d]
        /\ cpOp \in {"increment", "plusIs"} =>
              (cpIterator[1] = cpEnd[1] => cpEq(CPCursor, CPEndCursor))
        /\ (CPNonEmpty /\ cpOp = "construct") => CPGoodPos(cpIterator)
        /\ (CPNonEmpty /\ cpOp \in {"increment", "decrement"}
                       /\ CPGoodPos(cpPrev)) => CPGoodPos(cpIterator)

\* C11 witness: an increment has exhausted a cursor over sequences of two
\* elements each, so that every dimension is at its end and none at its begin
C11_Witness ==
    /\ CPNonEmpty
    /\ cpOp = "increment"
    /\ cpUb = "none"
    /\ cpEq(CPCursor, CPEndCursor)
    /\ \A d \in 1..Len(cpEnd) : CPSizes[d] = 2 /\ cpIterator[d] = cpEnd[d]

\* C12: over sequences one of which is empty, the cursor constructed at the
\* begin positions equals the end cursor, and no dimension is dereferenced.
C12_EmptyDimensionExhausted ==
    (/\ cpOp = "construct"
     /\ cpIterator = cpBegin
     /\ \E d \in 1..Len(cpEnd) : cpEnd[d] = cpBegin[d]) =>
        /\ cpEq(CPCursor, CPEndCursor)
        /\ cpVal = <<>>
        /\ cpUb = "none"

----------------------------------------------------------------------------
(* Properties of the join cursor (checked under SpecJoin) *)

\* B is sorted non-decreasing by key
SortedByKey(B) == \A i \in 1..Len(B) : \A k \in i..Len(B) : B[i] <= B[k]

\* s is a prefix of t
IsPrefix(s, t) == Len(s) <= Len(t) /\ \A i \in 1..Len(s) : s[i] = t[i]

\* the pairs <<i, k>> for the positions k of B whose key is A[i], in B's order
MatchesOf(A, B, i) ==
    LET RECURSIVE From(_)
        From(k) == IF k > Len(B) THEN <<>>
                   ELSE IF B[k] = A[i] THEN <<<<i, k>>>> \o From(k + 1)
                   ELSE From(k + 1)
    IN  From(1)

RECURSIVE ExpectedFrom(_, _, _)
\* the join of A and B from position i of A on: A's elements in order, each
\* with every B element of equal key, in B's order
ExpectedFrom(A, B, i) ==
    IF i > Len(A) THEN <<>>
    ELSE MatchesOf(A, B, i) \o ExpectedFrom(A, B, i + 1)

ExpectedPairs(A, B) == ExpectedFrom(A, B, 1)

\* the position the cursor is at: A position and matched B position
JPosition == <<jIterA, MatchedB(jImpl, JCursor)>>

\* the property of C2, for the cursors over the inputs that satisfy Pre
JoinEmitsExactly(Pre) ==
    (jOp # "idle" /\ Pre) =>
        LET expected == ExpectedPairs(jA, jB)
        IN  /\ jUb = "none"
            /\ IsPrefix(jOut, expected)
            /\ jwEq(JCursor, JEndCursor) <=>
                  (jOut = expected /\ jOp # "dereference")
            /\ (~jwEq(JCursor, JEndCursor) /\ ~jRead) =>
                  /\ Len(jOut) < Len(expected)
                  /\ JPosition = expected[Len(jOut) + 1]

\* C2: for every A and every B sorted by key, the traversal emits exactly
\* the pairs (a, b) of equal keys, the a in A's order and, for each a, the
\* matching b in B's order; it ends when all of them are emitted.
C2_JoinEmitsAllMatches == JoinEmitsExactly(SortedByKey(jB))

\* what C2 states, for the B that are sorted and not empty
JoinEmitsAllMatchesNonEmptyB == JoinEmitsExactly(SortedByKey(jB) /\ jB # <<>>)

\* the cursor is over the example of the specification's section 8
JIsExample == jOp # "idle" /\ jA = ExampleA /\ jB = ExampleB

\* the results emitted over the example: the A element and the B element
JExampleResults ==
    [n \in 1..Len(jOut) |->
        <<ExampleA[jOut[n][1]],
          <<ExampleB[jOut[n][2]], ExamplePayloadB[jOut[n][2]]>>>>]

\* C3 as stated: over the example the traversal yields (1,x), (2,y), (2,z)
\* and the cursor equals the end after the third result.
C3_ExampleThreeResults ==
    JIsExample =>
        /\ IsPrefix(JExampleResults,
                    << <<1, <<1, "x">>>>, <<2, <<2, "y">>>>, <<2, <<2, "z">>>> >>)
        /\ (Len(jOut) = 3 /\ jOp = "increment") => jwEq(JCursor, JEndCursor)

\* C3 amended: over the example the traversal yields (1,x), (2,y), (2,z),
\* (2,y), (2,z), the second 2 of A matching both 2 of B again, and the
\* cursor equals the end exactly after the fifth result.
C3_ExampleFiveResults ==
    JIsExample =>
        /\ jUb = "none"
        /\ IsPrefix(JExampleResults,
                    << <<1, <<1, "x">>>>, <<2, <<2, "y">>>>, <<2, <<2, "z">>>>,
                       <<2, <<2, "y">>>>, <<2, <<2, "z">>>> >>)
        /\ jwEq(JCursor, JEndCursor) <=> (Len(jOut) = 5 /\ jOp = "increment")

\* C3 witness: the traversal of the example has ended
C3_Witness ==
    /\ JIsExample
    /\ jwEq(JCursor, JEndCursor)
    /\ Len(jOut) = 5

\* C4: over a sorted B, after construction and after every increment the
\* cursor is exhausted, or its matched B position is in [beginB, endB) and
\* the B element there has the key of the A element at iterA.
C4_MatchedPositionValid ==
    (jOp \in {"construct", "increment"} /\ SortedByKey(jB)) =>
        \/ jIterA = EndA(jA)
        \/ LET b == MatchedB(jImpl, JCursor)
           IN  /\ b >= BeginB(jB)
               /\ b < EndB(jB)
               /\ jB[b] = jA[jIterA]

\* C5: a cursor constructed over an empty A or an empty B equals the end
\* cursor, and its construction dereferenced nothing.
C5_EmptyInputExhausted ==
    (jOp = "construct" /\ (jA = <<>> \/ jB = <<>>)) =>
        /\ jwEq(JCursor, JEndCursor)
        /\ ~jTouched

\* the property of C15, for the cursors over the inputs that satisfy Pre
SerialTraversalEnds(Pre) ==
    (jImpl \in {"loop", "find_if"} /\ jUb = "none" /\ Pre) =>
        /\ jwEq(JCursor, JEndCursor) <=> (jIterA = EndA(jA))
        /\ Len(jOut) <= Len(jA) * Len(jB)
        /\ ~jwEq(JCursor, JEndCursor) =>
              LET n == jwIncrement(jImpl, jA, jB, JCursor)
              IN  /\ n.ub = "none"
                  /\ n.iterA <= EndA(jA)
                  /\ \/ n.iterA > jIterA
                     \/ /\ n.iterA = jIterA
                        /\ MatchedB(jImpl, n) > MatchedB(jImpl, JCursor)
                        /\ MatchedB(jImpl, n) < EndB(jB)

\* C15: under the serial policy an increment of a cursor that is not
\* exhausted is defined (and so terminates) and moves the cursor forward, to
\* a later element of A or to a later element of B for the same element of
\* A, so that a traversal from construction reaches the terminal state after
\* at most Len(A) * Len(B) results; the cursor equals the end cursor exactly
\* when iterA = endA.
C15_SerialTraversalTerminates == SerialTraversalEnds(TRUE)

\* what C15 states, for the B that are not empty
SerialTraversalTerminatesNonEmptyB == SerialTraversalEnds(jB # <<>>)

RECURSIVE JIncN(_, _, _, _, _)
\* the cursor j after n increments, or as soon as it is exhausted
JIncN(impl, A, B, j, n) ==
    IF n = 0 \/ j.iterA = EndA(A) \/ j.ub # "none" THEN j
    ELSE JIncN(impl, A, B, jwIncrement(impl, A, B, j), n - 1)

\* a second cursor over the same A and B, constructed on its own and
\* incremented m times
JOtherAt(m) == JIncN(jImpl, jA, jB, construct(jImpl, jA, jB), m)

\* the number of increments applied to the cursor of the state
JIncs == Len(jOut) - (IF jRead THEN 1 ELSE 0)

\* the position in A of the n-th result of the join, counting from 0; the
\* end of A when the join has no such result
JoinPosA(n) ==
    IF n < Len(ExpectedPairs(jA, jB)) THEN ExpectedPairs(jA, jB)[n + 1][1]
    ELSE EndA(jA)

\* C16 as stated: over a sorted, non-empty B, the cursor equals a second
\* cursor over the same inputs exactly when both are the same number of
\* increments from begin.
C16_EqualIffSameTraversalPosition ==
    (/\ jImpl \in {"loop", "find_if"}
     /\ jUb = "none"
     /\ SortedByKey(jB) /\ jB # <<>>) =>
        \A m \in 0..Len(ExpectedPairs(jA, jB)) :
            jwEq(JCursor, JOtherAt(m)) <=> (m = JIncs)

\* C16 amended: over a sorted B, the cursor equals a second cursor over
\* the same inputs exactly when the results the two are at join the same
\* element of A (or both are exhausted); two cursors at the same number of
\* increments from begin are equal, and two cursors on the same element of A
\* with different matching elements of B are equal as well.
C16_EqualIffSameElementOfA ==
    (/\ jImpl \in {"loop", "find_if"}
     /\ jUb = "none"
     /\ SortedByKey(jB)) =>
        \A m \in 0..Len(ExpectedPairs(jA, jB)) :
            /\ JOtherAt(m).ub = "none"
            /\ jwEq(JCursor, JOtherAt(m)) <=> (JoinPosA(m) = JoinPosA(JIncs))
            /\ m = JIncs => jwEq(JCursor, JOtherAt(m))

\* C16 witness: the cursor, one increment from begin, equals the cursor at
\* begin: both are on the first element of A, which has two matches in B
C16_Witness ==
    /\ jImpl \in {"loop", "find_if"}
    /\ jUb = "none"
    /\ SortedByKey(jB)
    /\ jOp = "increment"
    /\ JIncs = 1
    /\ ~jwEq(JCursor, JEndCursor)
    /\ jwEq(JCursor, JOtherAt(0))
    /\ MatchedB(jImpl, JCursor) # MatchedB(jImpl, JOtherAt(0))

\* every pair emitted so far joins an element of A and an element of B
JEmittedInRange ==
    \A n \in 1..Len(jOut) :
        /\ jOut[n][1] \in 1..Len(jA)
        /\ jOut[n][2] \in 1..Len(jB)

\* every pair emitted so far joins elements of equal keys
JEmittedKeysEqual ==
    \A n \in 1..Len(jOut) : jA[jOut[n][1]] = jB[jOut[n][2]]

\* C20: over a B that is not sorted by key, the serial traversal
\* dereferences no position at or beyond endB, every pair it emits joins
\* elements of equal keys, and it ends at the end of A.
C20_UnsortedSafeAndMatching ==
    (jImpl \in {"loop", "find_if"} /\ ~SortedByKey(jB)) =>
        /\ jUb = "none"
        /\ JEmittedInRange
        /\ JEmittedKeysEqual
        /\ SerialTraversalEnds(TRUE)

\* C20 witness: a traversal over a B that is not sorted has ended after it
\* emitted some of the matching pairs and missed others
C20_Witness ==
    /\ jImpl \in {"loop", "find_if"}
    /\ ~SortedByKey(jB)
    /\ jUb = "none"
    /\ jwEq(JCursor, JEndCursor)
    /\ jOut # <<>>
    /\ Len(jOut) < Len(ExpectedPairs(jA, jB))

----------------------------------------------------------------------------
(* Properties of findNext() under a parallel policy (checked under SpecPar) *)

\* C13: during a findNext() under a parallel policy at most one invocation
\* of the predicate commits a found match, and an invocation that finds no
\* match never writes _iterB.
C13_OnlyOneMatchCommitted ==
    jImpl = "par" => (pCommits <= 1 /\ pMissWrites = 0)

\* C14: under a parallel policy, whatever the interleaving of the
\* invocations, a construction or an increment over a non-empty B ends with
\* the cursor exhausted or with _iterB in [beginB, endB) on a B element
\* whose key is the key of the A element at _iterA.
C14_ParallelMatchValid ==
    (/\ jImpl = "par"
     /\ jOp \in {"construct", "increment"}
     /\ jUb = "none"
     /\ jB # <<>>) =>
        \/ jIterA = EndA(jA)
        \/ /\ jIterB >= BeginB(jB)
           /\ jIterB < EndB(jB)
           /\ jB[jIterB] = jA[jIterA]

----------------------------------------------------------------------------
(* Properties of both serial cursors (checked under SpecCursors) *)

\* C19: a dereference of a cartesian-product cursor or of a join cursor
\* leaves the cursor's begin, current and end positions, or its iterA,
\* iterB and matched B position, as they were; it returns the elements at
\* the cursor's position, and a dereference that follows another without an
\* operation in between returns what the one before returned.
C19_DereferenceLeavesCursor ==
    [][(cpReads' > cpReads \/ jReads' > jReads) =>
          /\ <<cpBegin, cpIterator, cpEnd>>' = <<cpBegin, cpIterator, cpEnd>>
          /\ <<jIterA, jIterB, jFound>>' = <<jIterA, jIterB, jFound>>
          /\ (cpOp # "idle" /\ cpUb' = "none") =>
                /\ cpVal' = [d \in 1..Len(cpEnd) |-> ElemAt(d, cpIterator[d])]
                /\ cpReads > 0 => cpVal' = cpVal
          /\ (jOp # "idle" /\ jUb' = "none") =>
                /\ jVal' = <<jA[jIterA], jB[MatchedB(jImpl, JCursor)]>>
                /\ jReads > 0 => jVal' = jVal]_vars

\* C19 witness: a cartesian-product cursor that increments moved off the
\* begin has been dereferenced twice in a row
C19_Witness ==
    /\ CPNonEmpty
    /\ cpOp = "increment"
    /\ cpUb = "none"
    /\ cpReads = 2
    /\ cpVal = [d \in 1..Len(cpEnd) |-> ElemAt(d, cpIterator[d])]
    /\ cpIterator # cpBegin

\* a join cursor that an increment moved has been dereferenced twice in a row
JoinReadTwice ==
    /\ jOp = "dereference"
    /\ jUb = "none"
    /\ jReads = 2
    /\ Len(jOut) >= 2
    /\ jVal = <<jA[jIterA], jB[MatchedB(jImpl, JCursor)]>>

----------------------------------------------------------------------------
(* Properties of two cursors over one view (checked under SpecCopy) *)

\* C17: two ExceptIterator over the same source and sequence to except are
\* == exactly when they are at the same position, and != exactly when they
\* are not, also before the end; a cursor is == to itself and not != itself.
C17_ExceptEqualIffSamePosition ==
    (xKind = "except" /\ xCp # NoCursor) =>
        /\ exceptEq(xIt, xCp) <=> (xIt.iterator = xCp.iterator)
        /\ exceptNe(xIt, xCp) <=> (xIt.iterator # xCp.iterator)
        /\ exceptEq(xIt, xIt)
        /\ ~exceptNe(xIt, xIt)

\* v occurs in the sequence to except
InExcept(v) == \E k \in 1..Len(xAux) : xAux[k] = v

\* the first position after p whose element is kept, or the end
NextKept(p) ==
    CHOOSE q \in (p + 1)..XEnd :
        /\ q = XEnd \/ ~InExcept(xSrc[q])
        /\ \A r \in (p + 1)..(q - 1) : InExcept(xSrc[r])

\* c1 is one step after c: the next position of a map cursor, the next kept
\* position of an except cursor, a later A element or a later B element for
\* the same A element of a join cursor
XOneStepAfter(c, c1) ==
    CASE xKind = "map" -> c1.iterator = c.iterator + 1
      [] xKind = "except" -> c1.iterator = NextKept(c.iterator) /\ c1.end = c.end
      [] OTHER -> \/ c1.iterA > c.iterA
                  \/ c1.iterA = c.iterA /\ c1.found > c.found

\* C18: a copy is a cursor at the position of the original; an increment of
\* either leaves the other where it was; a post-increment returns a cursor
\* at the position before it and leaves the cursor it was applied to where
\* one pre-increment would, one step further.
C18_CopyIsIndependent ==
    /\ xOp = "copy" => (xCp = xPrevIt /\ xIt = xPrevIt)
    /\ xOp = "inc_it" =>
          /\ xCp = xPrevCp
          /\ XOneStepAfter(xPrevIt, xIt)
    /\ xOp = "inc_cp" =>
          /\ xIt = xPrevIt
          /\ XOneStepAfter(xPrevCp, xCp)
    /\ xOp = "postinc" =>
          /\ xRet = xPrevIt
          /\ xCp = xPrevCp
          /\ xIt = XIncrement(xPrevIt)
          /\ XOneStepAfter(xPrevIt, xIt)

\* C18 witness: the post-increment of an except cursor that has a copy
\* skipped an excepted element
C18_Witness ==
    /\ xKind = "except"
    /\ xOp = "postinc"
    /\ xCp # NoCursor
    /\ xCp = xPrevIt
    /\ xRet = xPrevIt
    /\ xIt.iterator > xPrevIt.iterator + 1

----------------------------------------------------------------------------
(* Properties of the Generate view (checked under SpecGenerate) *)

\* the amount a call of generate() stands for
GAmount == IF gArgs = <<>> THEN SizeMax ELSE gArgs[1]

\* a traversal of the view executes func exactly n times: the view is not a
\* while-true loop (Generate.hpp documents the flag as "interpreted as a
\* while-true loop") and its end counter is n steps of one after its begin
\* counter
GExecutes(n) ==
    /\ ~gView.begin.isWhileTrueLoop
    /\ gView.end.counter - gView.begin.counter = n

\* the construction part of C21: begin at counter 0, end at counter amount,
\* and the view marked a while-true loop exactly when amount is omitted or is
\* the largest size_t
GBuilt ==
    /\ gView.begin.counter = 0
    /\ gView.end.counter = GAmount
    /\ gView.begin.isWhileTrueLoop = (gArgs = <<>> \/ gArgs = <<SizeMax>>)
    /\ gView.end.isWhileTrueLoop = gView.begin.isWhileTrueLoop

C21_WitnessUnbounded ==
    /\ gOp = "generate"
    /\ gArgs = <<SizeMax>>
    /\ gView.begin.isWhileTrueLoop
    /\ gView.end.counter = SizeMax

----------------------------------------------------------------------------
(* Properties of the increment of the join cursor (checked under SpecJoin) *)

\* the first position of B, from position from on, whose key is key; the end
\* of B when there is none
NextEqualFrom(B, from, key) ==
    LET S == {k \in from..Len(B) : B[k] = key}
    IN  IF S = {} THEN EndB(B) ELSE CHOOSE k \in S : \A m \in S : k <= m

\* the cursor is on a match: an element of A and an element of B of equal keys
JAtMatch ==
    /\ jImpl \in {"loop", "find_if"}
    /\ jUb = "none"
    /\ jIterA # EndA(jA)
    /\ MatchedB(jImpl, JCursor) \in 1..Len(jB)
    /\ jA[jIterA] = jB[MatchedB(jImpl, JCursor)]

\* C22: after a match at B position j for the A element a, increment first
\* searches the B positions strictly after j with a's unchanged key; A
\* advances only when that search misses, and every element of A it advances
\* to is searched from B's start.  While iterA stays on one element the
\* successive matched B positions are strictly increasing.
C22_IncrementFollowsDuplicates ==
    [][(JAtMatch /\ jOp' = "increment") =>
        LET a == jIterA
            j == MatchedB(jImpl, JCursor)
            a2 == jIterA'
            j2 == MatchedB(jImpl, [iterB |-> jIterB', found |-> jFound'])
            hit == NextEqualFrom(jB, j + 1, jA[a])
        IN  /\ jUb' = "none"
            /\ a2 >= a
            /\ (a2 = a => j2 > j /\ j2 \in 1..Len(jB) /\ jB[j2] = jA[a])
            /\ SortedByKey(jB) =>
                  /\ (hit # EndB(jB) => a2 = a /\ j2 = hit)
                  /\ (hit = EndB(jB) =>
                        /\ a2 > a
                        /\ \A m \in (a + 1)..(a2 - 1) :
                              NextEqualFrom(jB, BeginB(jB), jA[m]) = EndB(jB)
                        /\ (a2 # EndA(jA) =>
                              j2 = NextEqualFrom(jB, BeginB(jB), jA[a2])))
      ]_vars

\* the last two results read join one element of A with two elements of B,
\* and the one before them joined an earlier element of A with an element
\* of B that is not before that of the second: A advanced and the search
\* started again from B's start
C22_Witness ==
    /\ jOp = "dereference"
    /\ SortedByKey(jB)
    /\ Len(jOut) >= 3
    /\ LET n == Len(jOut)
       IN  /\ jOut[n - 1][1] = jOut[n][1]
           /\ jOut[n - 1][2] < jOut[n][2]
           /\ jOut[n - 2][1] < jOut[n - 1][1]
           /\ jOut[n - 2][2] >= jOut[n - 1][2]

----------------------------------------------------------------------------
(* Increment and decrement of the cartesian-product cursor as inverses     *)
(* (checked under SpecCP)                                                  *)

\* it designates a tuple: every dimension is on an element
CPOnTuple(it) == \A d \in 1..Len(it) : it[d] >= cpBegin[d] /\ it[d] < cpEnd[d]

\* C23: over non-empty sequences, a decrement that follows an increment taken
\* at a position p that designates a tuple restores p, also when the
\* increment reached the end; an increment that follows a decrement taken at
\* the end or at a position p that designates a tuple other than the first
\* restores p.
C23_DecrementInvertsIncrement ==
    [][(/\ CPNonEmpty
        /\ cpUb = "none"
        /\ \/ cpOp = "increment" /\ cpOp' = "decrement" /\ CPOnTuple(cpPrev)
           \/ /\ cpOp = "decrement" /\ cpOp' = "increment"
              /\ cpPrev # cpBegin
              /\ cpPrev = cpEnd \/ CPOnTuple(cpPrev))
       => (cpUb' = "none" /\ cpIterator' = cpPrev /\ cpPrev' = cpIterator)
      ]_vars

\* a decrement has undone an increment that carried into the first dimension
C23_WitnessIncDec ==
    /\ CPNonEmpty
    /\ cpOp = "decrement"
    /\ cpUb = "none"
    /\ Len(cpEnd) = 3
    /\ CPOnTuple(cpIterator)
    /\ CPOnTuple(cpPrev)
    /\ cpPrev[1] = cpIterator[1] + 1
    /\ cpIterator[2] = cpEnd[2] - 1 /\ cpIterator[3] = cpEnd[3] - 1
    /\ cpPrev[2] = cpBegin[2] /\ cpPrev[3] = cpBegin[3]
    /\ CPSizes[2] = 2 /\ CPSizes[3] = 2

\* an increment has undone a decrement that borrowed from the first dimension
C23_WitnessDecInc ==
    /\ CPNonEmpty
    /\ cpOp = "increment"
    /\ cpUb = "none"
    /\ Len(cpEnd) = 3
    /\ CPOnTuple(cpIterator)
    /\ CPOnTuple(cpPrev)
    /\ cpIterator[1] = cpPrev[1] + 1
    /\ cpPrev[2] = cpEnd[2] - 1 /\ cpPrev[3] = cpEnd[3] - 1
    /\ cpIterator[2] = cpBegin[2] /\ cpIterator[3] = cpBegin[3]
    /\ CPSizes[2] = 2 /\ CPSizes[3] = 2

----------------------------------------------------------------------------
(* The order of two cartesian-product cursors (checked under SpecCP) *)

\* the position of the operand of the difference just taken
CPOtherPos ==
    CASE cpOther = "begin" -> cpBegin
      [] cpOther = "end" -> cpEnd
      [] OTHER -> cpPrev

\* C24: for two cursors a and b over the same non-empty sequences, a reached
\* strictly before b in traversal order (b may be the end), b - a > 0,
\* a - b < 0 and a - b = -(b - a).
C24_DistanceSignIsTraversalOrder ==
    (/\ CPNonEmpty
     /\ cpUb = "none"
     /\ cpOther # "none"
     /\ CPGoodPos(cpIterator)
     /\ CPGoodPos(CPOtherPos)) =>
        LET this == CPOrd(cpIterator)
            other == CPOrd(CPOtherPos)
        IN  /\ other < this => cpDist > 0 /\ cpDistRev < 0
            /\ this < other => cpDistRev > 0 /\ cpDist < 0
            /\ this # other => cpDistRev = -cpDist

----------------------------------------------------------------------------
(* The test of dimension 0 (checked under SpecCP) *)

\* C25: in every state that increments and jumps within [begin, end] reach
\* from the begin over non-empty sequences (and in every state a decrement
\* reaches from those), dimension 0 is at its end exactly when the whole
\* tuple is the tuple of the end cursor.
C25_FirstDimensionAtEndIffEnd ==
    (CPNonEmpty /\ cpUb = "none") =>
        ((cpIterator[1] = cpEnd[1]) <=> cpEq(CPCursor, CPEndCursor))

\* a jump from a position after the begin has carried dimension 0 to its end
\* and left the cursor equal to the end, over sequences of two elements
C25_Witness ==
    /\ CPNonEmpty
    /\ cpUb = "none"
    /\ cpOp = "plusIs"
    /\ cpArg > 0
    /\ cpPrev # cpBegin
    /\ cpPrev[1] < cpEnd[1]
    /\ \A d \in 1..Len(cpEnd) : CPSizes[d] = 2
    /\ cpIterator[1] = cpEnd[1]
    /\ cpEq(CPCursor, CPEndCursor)

----------------------------------------------------------------------------
(* The divisors of a jump (checked under SpecCP) *)

\* C26: a jump taken at any position of [begin, end], the end included, by an
\* offset that stays within [begin, end], 0 included, never divides by zero,
\* and a jump by 0 leaves the cursor where it was (stated here over
\* non-empty sequences).
C26_JumpNeverDividesByZero ==
    (CPNonEmpty /\ cpOp = "plusIs") =>
        /\ cpUb # "divzero"
        /\ (cpArg = 0 => cpUb = "none" /\ cpIterator = cpPrev)

----------------------------------------------------------------------------
(* The two serial implementations of the join cursor (checked under        *)
(* SpecJoin)                                                               *)

\* the implementation the cursor of the state is not
JOtherImpl == IF jImpl = "loop" THEN "find_if" ELSE "loop"

\* the cursor of the other implementation over the same A and B, after as
\* many increments as the cursor of the state
JTwin == JIncN(JOtherImpl, jA, jB, construct(JOtherImpl, jA, jB), JIncs)

\* C27: over any A and a sorted, non-empty B, the loop implementation and the
\* find_if implementation are, after the same number of increments, both
\* equal to the end or both on the same pair <<A position, matched B
\* position>>: they emit the same pairs and reach the end together.
C27_ImplementationsAgree ==
    (/\ jImpl \in {"loop", "find_if"}
     /\ SortedByKey(jB) /\ jB # <<>>) =>
        /\ jUb = "none"
        /\ JTwin.ub = "none"
        /\ jwEq(JCursor, JEndCursor) <=> jwEq(JTwin, JEndCursor)
        /\ ~jwEq(JCursor, JEndCursor) =>
              jwDereference(jImpl, jA, jB, JCursor)
                  = jwDereference(JOtherImpl, jA, jB, JTwin)

\* the find_if cursor, two increments from begin, is on a match of a further
\* element of A, after two matches of one element of A that is not the
\* first, and the loop cursor has recorded the same position of B
C27_Witness ==
    /\ jImpl = "find_if"
    /\ SortedByKey(jB) /\ jB # <<>>
    /\ jOp = "increment"
    /\ JIncs = 2
    /\ ~jwEq(JCursor, JEndCursor)
    /\ jOut[1][1] > 1
    /\ jOut[2][1] = jOut[1][1]
    /\ jOut[2][1] < jIterA
    /\ JTwin.found = jIterB

----------------------------------------------------------------------------
(* The skip loop of the except cursor (checked under SpecCopy) *)

\* the except cursor c is at the end of the source or on an element that the
\* sequence to except does not contain, and has read no position but
\* elements of the source
ExceptOnKept(c) ==
    /\ c.ub = "none"
    /\ \/ c.iterator = XEnd
       \/ /\ c.iterator \in 1..Len(xSrc)
          /\ \A k \in 1..Len(xAux) : xAux[k] # xSrc[c.iterator]

\* C28: after every operator++ (and operator++(int)) applied to an except
\* cursor before the end of its source, the cursor is at the end of the
\* source or on an element that is not in the sequence to except, and the
\* skip loop has not dereferenced the end of the source.
C28_IncrementLandsOnKeptOrEnd ==
    xKind = "except" =>
        /\ xOp \in {"inc_it", "postinc"} => ExceptOnKept(xIt)
        /\ xOp = "inc_cp" => ExceptOnKept(xCp)

\* an increment has skipped two elements in a row and stopped at the end of
\* the source, the last element being one to except
C28_Witness ==
    /\ xKind = "except"
    /\ xOp = "inc_it"
    /\ xIt.ub = "none"
    /\ xPrevIt.iterator + 3 = XEnd
    /\ xIt.iterator = XEnd
    /\ xAux # <<>>

\* an increment has skipped an element and stopped on one that is kept
C28_WitnessKept ==
    /\ xKind = "except"
    /\ xOp = "inc_it"
    /\ xIt.iterator = xPrevIt.iterator + 2
    /\ xIt.iterator < XEnd

----------------------------------------------------------------------------
(* Properties of the Enumerate view (checked under SpecEnumerate) *)

\* C29: over n elements and a start index s, the begin cursor carries the
\* index s and the end cursor the index s + n, the index of a cursor
\* incremented n times from begin; a cursor that steps back from the end
\* pairs each element with the index begin's traversal pairs it with, the
\* last element with s + n - 1 (stated here for n >= 1).
C29_EndIndexIsStartPlusSize ==
    (eOp # "idle" /\ eSrc # <<>>) =>
        /\ eView.begin.index = eStart
        /\ eView.end.index = eStart + Len(eSrc)
        /\ eIt.index = eStart + (eIt.iterator - 1)
        /\ eOp = "dereference" =>
              eVal = <<eStart + (eIt.iterator - 1), eSrc[eIt.iterator]>>

\* what holds of the code: with the start index 0 the end cursor carries
\* the index n
EnumerateEndIndexFromZero ==
    (eOp # "idle" /\ eStart = 0) =>
        /\ eView.end.index = Len(eSrc)
        /\ eIt.index = eIt.iterator - 1

============================================================================
